---- MODULE Spec2Model ----
(***************************************************************************)
(* Model of the hand-drawn geometry engine of excaliosa (Rust).            *)
(*                                                                         *)
(* Numbers.  f64 values are modelled in fixed point: the integer v stands  *)
(* for the real v / Scale.  Products and quotients round to the nearest    *)
(* representable value and are symmetric in the sign, as IEEE arithmetic   *)
(* is.  The inputs the specifications enumerate are chosen so that the     *)
(* quantities the properties compare are exactly representable.            *)
(* The 64-bit state of the generator is kept exactly, as eight bytes in    *)
(* little-endian order, and all its arithmetic is modulo 2^64.             *)
(***************************************************************************)
EXTENDS Integers, Sequences, FiniteSets, TLC

VARIABLES
    rng,        \* slot -> 64-bit LcgRng state held in that slot
    rngSeed,    \* SpecRng: instance -> seed it was constructed with
    rngOps,     \* SpecRng: instance -> sequence of the calls made on it
    rngRet,     \* SpecRng: instance -> sequence of the values returned
    fnArgs,     \* pure-function specifications: the arguments of the call
    fnRes,      \* ... the value returned
    fnDone,     \* ... whether the call has returned
    pc,         \* SpecRough: worker -> "idle" | "begin" | "step" | "done"
    cur,        \* worker -> arguments of the generator call in progress
    pass,       \* worker -> pass number of the call in progress (1..3)
    idx,        \* worker -> index of the next item of the pass
    acc,        \* worker -> items produced so far in the pass
    loc,        \* worker -> locals of generate_ellipse_points
    out,        \* worker -> the Vec<(String, f64)> being returned
    draws       \* worker -> <<generators constructed, values drawn>> in the call

vars == <<rng, rngSeed, rngOps, rngRet, fnArgs, fnRes, fnDone,
          pc, cur, pass, idx, acc, loc, out, draws>>

----------------------------------------------------------------------------
(* Fixed-point arithmetic standing for f64.                                *)

Scale == 10 ^ 3

AbsI(x) == IF x < 0 THEN -x ELSE x

Sgn(x) == IF x < 0 THEN -1 ELSE IF x > 0 THEN 1 ELSE 0

MinI(a, b) == IF a <= b THEN a ELSE b

MaxI(a, b) == IF a >= b THEN a ELSE b

\* the real n / d
Fx(n, d) == Sgn(n) * ((AbsI(n) * Scale + d \div 2) \div d)

MulMag(a, b) == (a \div Scale) * b + ((a % Scale) * b + Scale \div 2) \div Scale

\* a * b
MulFix(a, b) == Sgn(a) * Sgn(b) * MulMag(AbsI(a), AbsI(b))

DivMag(a, b) == (a \div b) * Scale + ((a % b) * Scale + b \div 2) \div b

\* a / b, b # 0
DivFix(a, b) == Sgn(a) * Sgn(b) * DivMag(AbsI(a), AbsI(b))

\* floor(r * r) in fixed point, and whether r * r is exactly representable
SqFloor(r) == (r \div Scale) * r + ((r % Scale) * r) \div Scale

SqExact(r) == ((r % Scale) * r) % Scale = 0

SqLeq(r, v) == SqFloor(r) < v \/ (SqFloor(r) = v /\ SqExact(r))

RECURSIVE SqrtSearch(_, _, _)
SqrtSearch(v, lo, hi) ==
    IF lo >= hi THEN lo
    ELSE LET mid == (lo + hi + 1) \div 2
         IN IF SqLeq(mid, v) THEN SqrtSearch(v, mid, hi)
            ELSE SqrtSearch(v, lo, mid - 1)

\* f64::sqrt for v >= 0 (largest r with r * r <= v); the search stays below
\* the largest r whose square is representable
SqrtFix(v) == SqrtSearch(v, 0, MinI(MaxI(v, Scale), 1465 * Scale))

\* f64::ceil, as an integer count
CeilInt(v) == IF v % Scale = 0 THEN v \div Scale ELSE v \div Scale + 1

PiFix == Fx(355, 113)

TwoPi == 2 * PiFix

HalfPi == Fx(355, 226)

\* f64::to_radians
ToRadians(deg) == MulFix(deg, PiFix) \div 180

TaylorCos(x) ==
    LET x2 == MulFix(x, x)
        x4 == MulFix(x2, x2)
        x6 == MulFix(x4, x2)
    IN Scale - x2 \div 2 + x4 \div 24 - x6 \div 720

TaylorSin(x) ==
    LET x2 == MulFix(x, x)
        x3 == MulFix(x2, x)
        x5 == MulFix(x3, x2)
        x7 == MulFix(x5, x2)
    IN x - x3 \div 6 + x5 \div 120 - x7 \div 5040

\* cosine on [0, pi/2]
CosQ(r) == IF 2 * r <= HalfPi THEN TaylorCos(r) ELSE TaylorSin(HalfPi - r)

\* f64::cos
Cos(x) ==
    LET r == x % TwoPi
    IN IF r <= HalfPi THEN CosQ(r)
       ELSE IF r <= PiFix THEN -CosQ(PiFix - r)
       ELSE IF r <= PiFix + HalfPi THEN -CosQ(r - PiFix)
       ELSE CosQ(TwoPi - r)

\* f64::sin
Sin(x) == Cos(x - HalfPi)

----------------------------------------------------------------------------
(* u64 arithmetic on eight little-endian bytes.                            *)

RECURSIVE XorBits(_, _, _)
XorBits(a, b, n) ==
    IF n = 0 THEN 0
    ELSE (((a % 2) + (b % 2)) % 2) + 2 * XorBits(a \div 2, b \div 2, n - 1)

XorU64(a, b) == [k \in 1..8 |-> XorBits(a[k], b[k], 8)]

RECURSIVE ColSum(_, _, _, _)
ColSum(a, m, k, i) ==
    IF i > k THEN 0 ELSE a[i] * m[k + 1 - i] + ColSum(a, m, k, i + 1)

RECURSIVE MulCarry(_, _, _, _)
MulCarry(a, m, k, carry) ==
    IF k > 8 THEN <<>>
    ELSE LET t == ColSum(a, m, k, 1) + carry
         IN <<t % 256>> \o MulCarry(a, m, k + 1, t \div 256)

\* u64::wrapping_mul
WrappingMul(a, m) == MulCarry(a, m, 1, 0)

RECURSIVE AddCarry(_, _, _)
AddCarry(a, k, carry) ==
    IF k > 8 THEN <<>>
    ELSE LET t == a[k] + carry
         IN <<t % 256>> \o AddCarry(a, k + 1, t \div 256)

\* u64::wrapping_add of a small constant
WrappingAdd(a, c) == AddCarry(a, 1, c)

\* seed as u64: the i32 is sign-extended to 64 bits
SeedAsU64(seed) ==
    [k \in 1..8 |->
        IF k <= 4 THEN (seed \div (256 ^ (k - 1))) % 256
        ELSE IF seed < 0 THEN 255 ELSE 0]

ZeroU64 == <<0, 0, 0, 0, 0, 0, 0, 0>>

\* 0x9E3779B97F4A7C15
SeedMix == <<21, 124, 74, 127, 185, 121, 55, 158>>

\* 0xDEADBEEFCAFEBABE
ZeroRemap == <<190, 186, 254, 202, 239, 190, 173, 222>>

\* 6364136223846793005 = 0x5851F42D4C957F2D
LcgMul == <<45, 127, 149, 76, 45, 244, 81, 88>>

MaxI32 == 2147483647

MinI32 == -MaxI32 - 1

\* i32::wrapping_add(seed, k) for a small k >= 0
SeedWrappingAdd(seed, k) ==
    IF seed > MaxI32 - k THEN MinI32 + (k - 1 - (MaxI32 - seed)) ELSE seed + k

----------------------------------------------------------------------------
(* LcgRng.                                                                 *)

\* the seed taken as the state, neither mixed nor checked
LcgNewUnmixed(seed) == SeedAsU64(seed)

\* LcgRng::new: the initial state
LcgNew(seed) ==
    LET s == XorU64(SeedAsU64(seed), SeedMix)
    IN IF s = ZeroU64 THEN ZeroRemap ELSE s

\* one generator shared by every caller
SharedSlot(i) == 1

\* the state an LcgRng value owns: one per instance, one per call
Own(i) == i

\* the state after next_u64
LcgStep(s) == WrappingAdd(WrappingMul(s, LcgMul), 1)

\* the shift done on the state as a signed integer
F64OfSigned(s) ==
    LET top == s[8] * 256 + s[7]
    IN ((IF top >= 32768 THEN top - 65536 ELSE top) * Scale) \div 65536

\* the value of next_f64 for the state s that next_u64 has just produced:
\* (s >> 11) / 2^53, truncated to the fixed-point resolution; it is computed
\* from bits 48..63 of s, all of which survive the shift
F64Of(s) == ((s[8] * 256 + s[7]) * Scale) \div 65536

\* range(min, max) for the state s that next_u64 has just produced
RangeOf(s, min, max) == min + MulFix(max - min, F64Of(s))

\* the states after each of n successive calls of next_u64 from the state s
RECURSIVE LcgDraws(_, _)
LcgDraws(s, n) ==
    IF n = 0 THEN <<>> ELSE <<LcgStep(s)>> \o LcgDraws(LcgStep(s), n - 1)

----------------------------------------------------------------------------
(* Values of the variables a specification does not use.                   *)

Workers == {1, 2}

NoCall == [fn |-> "none"]

RngIdle ==
    /\ rngSeed = [i \in Workers |-> 0]
    /\ rngOps = [i \in Workers |-> <<>>]
    /\ rngRet = [i \in Workers |-> <<>>]

FnIdle ==
    /\ fnArgs = NoCall
    /\ fnRes = <<>>
    /\ fnDone = FALSE

\* the locals of generate_ellipse_points before the call
ZeroLoc == [rad_offset |-> 0, angle |-> 0, closing |-> 0]

RoughIdle ==
    /\ pc = [w \in Workers |-> "idle"]
    /\ cur = [w \in Workers |-> NoCall]
    /\ pass = [w \in Workers |-> 0]
    /\ idx = [w \in Workers |-> 0]
    /\ acc = [w \in Workers |-> <<>>]
    /\ loc = [w \in Workers |-> ZeroLoc]
    /\ out = [w \in Workers |-> <<>>]
    /\ draws = [w \in Workers |-> <<0, 0>>]

rngVars == <<rngSeed, rngOps, rngRet>>

fnVars == <<fnArgs, fnRes, fnDone>>

roughVars == <<pc, cur, pass, idx, acc, loc, out, draws>>

----------------------------------------------------------------------------
(* SpecRng: two LcgRng instances, each called in any order.                *)

MaxCalls == 2

Instances == {1, 2}

RngSeeds == {0, 7, -1}

\* (min, max) pairs passed to range
RangeArgs == {<<-1000, 1000>>, <<0, 500>>}

InitRng ==
    /\ rngSeed \in [Instances -> RngSeeds]
    /\ rng = [i \in Instances |-> LcgNew(rngSeed[i])]
    /\ rngOps = [i \in Instances |-> <<>>]
    /\ rngRet = [i \in Instances |-> <<>>]
    /\ FnIdle
    /\ RoughIdle

\* one call on instance i: the state advances once, whatever the call
RngCall(i, op, val) ==
    /\ Len(rngOps[i]) < MaxCalls
    /\ rng' = [rng EXCEPT ![Own(i)] = LcgStep(rng[Own(i)])]
    /\ rngOps' = [rngOps EXCEPT ![i] = Append(@, op)]
    /\ rngRet' = [rngRet EXCEPT ![i] = Append(@, val)]
    /\ UNCHANGED <<rngSeed, fnVars, roughVars>>

next_u64(i) ==
    RngCall(i, [op |-> "next_u64", min |-> 0, max |-> 0],
            LcgStep(rng[Own(i)]))

next_f64(i) ==
    RngCall(i, [op |-> "next_f64", min |-> 0, max |-> 0],
            F64Of(LcgStep(rng[Own(i)])))

range(i, min, max) ==
    RngCall(i, [op |-> "range", min |-> min, max |-> max],
            RangeOf(LcgStep(rng[Own(i)]), min, max))

NextRng ==
    \E i \in Instances :
        \/ next_u64(i)
        \/ next_f64(i)
        \/ \E a \in RangeArgs : range(i, a[1], a[2])

SpecRng == InitRng /\ [][NextRng]_vars

RECURSIVE LcgIterate(_, _)
LcgIterate(s, k) == IF k = 0 THEN s ELSE LcgIterate(LcgStep(s), k - 1)

\* C2: two generators constructed with the same seed and given the same
\* calls hold the same state and have returned the same values; after k calls
\* of any kind the state of an instance is the k-th iterate of its own initial
\* state, so it depends on nothing but the instance's own state.
C2_SameSeedSameSequence ==
    /\ \A i \in Instances :
          rng[Own(i)] = LcgIterate(LcgNew(rngSeed[i]), Len(rngOps[i]))
    /\ \A i, j \in Instances :
          (rngSeed[i] = rngSeed[j] /\ Len(rngOps[i]) = Len(rngOps[j]))
              => rng[Own(i)] = rng[Own(j)]
    /\ \A i, j \in Instances :
          (rngSeed[i] = rngSeed[j] /\ rngOps[i] = rngOps[j])
              => rngRet[i] = rngRet[j]

C2_Witness ==
    /\ rngSeed[1] = 7
    /\ rngSeed[2] = 7
    /\ Len(rngOps[1]) = 2
    /\ rngOps[1] = rngOps[2]
    /\ rngOps[1][1].op = "next_f64"
    /\ rngOps[1][2].op = "range"
    /\ rngRet[1][1] = 62
    /\ rng[Own(1)] # LcgNew(7)

----------------------------------------------------------------------------
(* Arrowhead geometry (arrow_utils.rs).                                    *)

ArrowKinds ==
    {"arrow", "diamond", "diamond_outline", "crowfoot_many", "crowfoot_one",
     "crowfoot_one_or_many", "dot", "circle", "circle_outline", "bar",
     "triangle", "triangle_outline"}

get_arrowhead_size_flat(arrowhead) == 15 * Scale

get_arrowhead_size(arrowhead) ==
    IF arrowhead = "arrow" THEN 25 * Scale
    ELSE IF arrowhead \in {"diamond", "diamond_outline"} THEN 12 * Scale
    ELSE IF arrowhead \in {"crowfoot_many", "crowfoot_one",
                           "crowfoot_one_or_many"} THEN 20 * Scale
    ELSE 15 * Scale

\* degrees
get_arrowhead_angle(arrowhead) ==
    IF arrowhead = "bar" THEN 90 * Scale
    ELSE IF arrowhead = "arrow" THEN 20 * Scale
    ELSE 25 * Scale

rotate_point(px, py, cx, cy, angle_rad) ==
    LET dx == px - cx
        dy == py - cy
        ca == Cos(angle_rad)
        sa == Sin(angle_rad)
    IN <<cx + MulFix(dx, ca) - MulFix(dy, sa),
         cy + MulFix(dx, sa) + MulFix(dy, ca)>>

\* a distance that is never allowed to be zero
ArrowDistClamped(dx, dy) ==
    MaxI(SqrtFix(MulFix(dx, dx) + MulFix(dy, dy)), 1)

\* dist: the length of the vector from tail to tip
ArrowDist(dx, dy) == SqrtFix(MulFix(dx, dx) + MulFix(dy, dy))

\* length_mult
ArrowLengthMult(arrowhead) ==
    IF arrowhead = "diamond" \/ arrowhead = "diamond_outline"
    THEN Fx(1, 4) ELSE Fx(1, 2)

\* the locals of calc_arrowhead_points for a shaft with dist # 0
ArrowLocals(a) ==
    LET dx == a.x_tip - a.x_tail
        dy == a.y_tip - a.y_tail
        dist == ArrowDist(dx, dy)
        nx == DivFix(dx, dist)
        ny == DivFix(dy, dist)
        base_size == get_arrowhead_size(a.arrowhead)
        size_multiplier == Scale + MulFix(a.stroke_width - Scale, Fx(3, 10))
        min_size == MinI(MulFix(base_size, size_multiplier),
                         MulFix(a.segment_length, ArrowLengthMult(a.arrowhead)))
    IN [nx |-> nx, ny |-> ny, min_size |-> min_size,
        xs |-> a.x_tip - MulFix(nx, min_size),
        ys |-> a.y_tip - MulFix(ny, min_size)]

\* the arm every unknown kind takes in the raster renderer
ArrowArmDefaultTriangle(arrowhead) ==
    IF arrowhead \in {"dot", "circle", "circle_outline"} THEN "circle"
    ELSE IF arrowhead = "bar" THEN "bar"
    ELSE IF arrowhead = "arrow" THEN "arrow"
    ELSE IF arrowhead \in {"diamond", "diamond_outline"} THEN "diamond"
    ELSE IF arrowhead \in {"crowfoot_many", "crowfoot_one_or_many"}
         THEN "crowfoot_many"
    ELSE IF arrowhead = "crowfoot_one" THEN "crowfoot_one"
    ELSE "triangle"

\* the arm of the match on the kind
ArrowArm(arrowhead) ==
    IF arrowhead \in {"dot", "circle", "circle_outline"} THEN "circle"
    ELSE IF arrowhead = "bar" THEN "bar"
    ELSE IF arrowhead = "arrow" THEN "arrow"
    ELSE IF arrowhead \in {"triangle", "triangle_outline"} THEN "triangle"
    ELSE IF arrowhead \in {"diamond", "diamond_outline"} THEN "diamond"
    ELSE IF arrowhead \in {"crowfoot_many", "crowfoot_one_or_many"}
         THEN "crowfoot_many"
    ELSE IF arrowhead = "crowfoot_one" THEN "crowfoot_one"
    ELSE "none"

\* x3, y3, x4, y4 of the bar, triangle and diamond arms
ArrowFlanks(l, cos_a, sin_a) ==
    <<l.xs + MulFix(MulFix(-l.ny, cos_a) - MulFix(l.nx, sin_a), l.min_size),
      l.ys + MulFix(MulFix(l.nx, cos_a) - MulFix(l.ny, sin_a), l.min_size),
      l.xs + MulFix(MulFix(-l.ny, cos_a) + MulFix(l.nx, sin_a), l.min_size),
      l.ys + MulFix(MulFix(l.nx, cos_a) + MulFix(l.ny, sin_a), l.min_size)>>

calc_arrowhead_points(a) ==
    LET dx == a.x_tip - a.x_tail
        dy == a.y_tip - a.y_tail
        dist == ArrowDist(dx, dy)
    IN IF dist = 0 THEN <<>>
       ELSE
       LET l == ArrowLocals(a)
           arm == ArrowArm(a.arrowhead)
           angle == ToRadians(get_arrowhead_angle(a.arrowhead))
           cos_a == Cos(angle)
           sin_a == Sin(angle)
           f == ArrowFlanks(l, cos_a, sin_a)
       IN CASE arm = "circle" ->
                 <<a.x_tip, a.y_tip,
                   SqrtFix(MulFix(l.ys - a.y_tip, l.ys - a.y_tip)
                           + MulFix(l.xs - a.x_tip, l.xs - a.x_tip))
                   + a.stroke_width - 2 * Scale>>
            [] arm = "bar" -> f
            [] arm = "arrow" ->
                 <<a.x_tip, a.y_tip,
                   a.x_tip + MulFix(MulFix(-l.nx, cos_a) - MulFix(l.ny, sin_a),
                                    l.min_size),
                   a.y_tip + MulFix(MulFix(-l.ny, cos_a) + MulFix(l.nx, sin_a),
                                    l.min_size),
                   a.x_tip + MulFix(MulFix(-l.nx, cos_a) + MulFix(l.ny, sin_a),
                                    l.min_size),
                   a.y_tip + MulFix(MulFix(-l.ny, cos_a) - MulFix(l.nx, sin_a),
                                    l.min_size)>>
            [] arm = "triangle" -> <<a.x_tip, a.y_tip>> \o f
            [] arm = "diamond" ->
                 <<a.x_tip, a.y_tip, f[1], f[2],
                   a.x_tip - MulFix(MulFix(l.nx, l.min_size), 2 * Scale),
                   a.y_tip - MulFix(MulFix(l.ny, l.min_size), 2 * Scale),
                   f[3], f[4]>>
            [] arm \in {"crowfoot_many", "crowfoot_one"} ->
                 <<l.xs, l.ys>>
                 \o rotate_point(a.x_tip, a.y_tip, l.xs, l.ys, -angle)
                 \o rotate_point(a.x_tip, a.y_tip, l.xs, l.ys, angle)
            [] OTHER -> <<>>

(* SpecArrow: one call of calc_arrowhead_points.                           *)

\* <<x_tail, y_tail, x_tip, y_tip>>: shafts along the axes and along the
\* (3, 4, 5) direction, whose unit vectors are exactly representable, and
\* two shafts of length zero
ArrowShafts ==
    {<<0, 0, 100 * Scale, 0>>, <<100 * Scale, 0, 0, 0>>,
     <<97 * Scale, -4 * Scale, 100 * Scale, 0>>,
     <<0, 50 * Scale, 0, 0>>, <<8 * Scale, 6 * Scale, 0, 0>>,
     <<0, 0, 0, 0>>, <<100 * Scale, 0, 100 * Scale, 0>>}

ArrowStrokeWidths == {0, Scale, 2 * Scale, 4 * Scale}

ArrowSegmentLengths == {0, 10 * Scale, 100 * Scale}

ArrowInputs ==
    {[fn |-> "calc_arrowhead_points",
      x_tail |-> s[1], y_tail |-> s[2], x_tip |-> s[3], y_tip |-> s[4],
      arrowhead |-> k, stroke_width |-> sw, segment_length |-> seg] :
        s \in ArrowShafts, k \in ArrowKinds \cup {"star", ""},
        sw \in ArrowStrokeWidths, seg \in ArrowSegmentLengths}

InitArrow ==
    /\ fnArgs \in ArrowInputs
    /\ fnRes = <<>>
    /\ fnDone = FALSE
    /\ rng = [i \in Workers |-> ZeroU64]
    /\ RngIdle
    /\ RoughIdle

CallArrowhead ==
    /\ ~fnDone
    /\ fnRes' = calc_arrowhead_points(fnArgs)
    /\ fnDone' = TRUE
    /\ UNCHANGED <<fnArgs, rng, rngVars, roughVars>>

NextArrow == CallArrowhead

SpecArrow == InitArrow /\ [][NextArrow]_vars

\* C4: whenever the tail equals the tip the result is the empty vector,
\* whatever the kind, the stroke width and the segment length.
C4_DegenerateShaftEmpty ==
    (fnDone /\ fnArgs.x_tail = fnArgs.x_tip /\ fnArgs.y_tail = fnArgs.y_tip)
        => fnRes = <<>>

C4_Witness ==
    /\ fnDone
    /\ fnArgs.x_tail = fnArgs.x_tip
    /\ fnArgs.y_tail = fnArgs.y_tip
    /\ fnArgs.arrowhead = "triangle"
    /\ fnArgs.segment_length = 100 * Scale
    /\ fnRes = <<>>

NonDegenerate == fnArgs.x_tail # fnArgs.x_tip \/ fnArgs.y_tail # fnArgs.y_tip

\* C5: for tail # tip the number of values returned is fixed by the kind:
\* 3 for the circle kinds (centre = tip), 4 for bar, 6 for arrow and the
\* triangle kinds (first point = tip), 8 for the diamond kinds (first point =
\* tip), 6 for the crowfoot kinds, 0 for every unknown kind.
C5_ShapeByKind ==
    (fnDone /\ NonDegenerate) =>
        LET k == fnArgs.arrowhead
            tipFirst == fnRes[1] = fnArgs.x_tip /\ fnRes[2] = fnArgs.y_tip
        IN /\ k \in {"dot", "circle", "circle_outline"}
                => (Len(fnRes) = 3 /\ tipFirst)
           /\ k = "bar" => Len(fnRes) = 4
           /\ k \in {"arrow", "triangle", "triangle_outline"}
                => (Len(fnRes) = 6 /\ tipFirst)
           /\ k \in {"diamond", "diamond_outline"}
                => (Len(fnRes) = 8 /\ tipFirst)
           /\ k \in {"crowfoot_many", "crowfoot_one", "crowfoot_one_or_many"}
                => (/\ Len(fnRes) = 6
                    /\ fnRes[1] = ArrowLocals(fnArgs).xs
                    /\ fnRes[2] = ArrowLocals(fnArgs).ys)
           /\ k \notin ArrowKinds => fnRes = <<>>

C5_Witness ==
    /\ fnDone
    /\ fnArgs.arrowhead = "triangle"
    /\ <<fnArgs.x_tail, fnArgs.y_tail>> = <<0, 0>>
    /\ <<fnArgs.x_tip, fnArgs.y_tip>> = <<100 * Scale, 0>>
    /\ fnArgs.stroke_width = Scale
    /\ fnArgs.segment_length = 100 * Scale
    /\ Len(fnRes) = 6
    /\ <<fnRes[1], fnRes[2]>> = <<100 * Scale, 0>>

\* the cap length as the specification gives it
CapBaseSize(k) ==
    CASE k = "arrow" -> 25 * Scale
      [] k \in {"diamond", "diamond_outline"} -> 12 * Scale
      [] k \in {"crowfoot_many", "crowfoot_one", "crowfoot_one_or_many"}
           -> 20 * Scale
      [] OTHER -> 15 * Scale

CapFraction(k) ==
    IF k \in {"diamond", "diamond_outline"} THEN Fx(1, 4) ELSE Fx(1, 2)

CapLength(k, sw, seg) ==
    MinI(MulFix(CapBaseSize(k), Scale + MulFix(sw - Scale, Fx(3, 10))),
         MulFix(seg, CapFraction(k)))

\* Euclidean distance of two points
Dist(x1, y1, x2, y2) ==
    SqrtFix(MulFix(x2 - x1, x2 - x1) + MulFix(y2 - y1, y2 - y1))

\* C6: for a non-degenerate shaft the base point (xs, ys) lies at distance
\* min(baseSize * (1 + (strokeWidth - 1) * 0.3), segmentLength * f) behind the
\* tip, f = 0.25 for the diamond kinds and 0.5 otherwise, baseSize = 25, 12,
\* 20 or 15 by kind; the cap never exceeds segmentLength * f.  The length
\* shows in the result: the circle diameter is it plus strokeWidth - 2, the
\* diamond's opposite point lies two cap lengths behind the tip, and the
\* crowfoot record starts with the base point.
C6_CapLength ==
    (fnDone /\ NonDegenerate) =>
        LET k == fnArgs.arrowhead
            l == ArrowLocals(fnArgs)
            e == CapLength(k, fnArgs.stroke_width, fnArgs.segment_length)
        IN /\ l.min_size = e
           /\ e <= MulFix(fnArgs.segment_length, CapFraction(k))
           /\ Dist(l.xs, l.ys, fnArgs.x_tip, fnArgs.y_tip) = e
           /\ k \in {"dot", "circle", "circle_outline"}
                => fnRes[3] - fnArgs.stroke_width + 2 * Scale = e
           /\ k \in {"diamond", "diamond_outline"}
                => Dist(fnRes[5], fnRes[6], fnArgs.x_tip, fnArgs.y_tip)
                       = 2 * e
           /\ k \in {"crowfoot_many", "crowfoot_one", "crowfoot_one_or_many"}
                => Dist(fnRes[1], fnRes[2], fnArgs.x_tip, fnArgs.y_tip)
                       = e

\* a cap limited by a short final segment
C6_Witness ==
    /\ fnDone
    /\ fnArgs.arrowhead = "diamond"
    /\ <<fnArgs.x_tail, fnArgs.y_tail>> = <<97 * Scale, -4 * Scale>>
    /\ <<fnArgs.x_tip, fnArgs.y_tip>> = <<100 * Scale, 0>>
    /\ fnArgs.stroke_width = 2 * Scale
    /\ fnArgs.segment_length = 10 * Scale
    /\ ArrowLocals(fnArgs).min_size = Fx(5, 2)
    /\ <<fnRes[5], fnRes[6]>> = <<97 * Scale, -4 * Scale>>

----------------------------------------------------------------------------
(* Corner radius (rect_utils.rs).  An Option is <<>> for None and <<v>>    *)
(* for Some(v).                                                            *)

DEFAULT_PROPORTIONAL_RADIUS == Fx(1, 4)

DEFAULT_ADAPTIVE_RADIUS == 32 * Scale

ROUNDNESS_LEGACY == 1

ROUNDNESS_PROPORTIONAL_RADIUS == 2

ROUNDNESS_ADAPTIVE_RADIUS == 3

unwrap_or(opt, default) == IF opt = <<>> THEN default ELSE opt[1]

\* a cutoff that multiplies where it should divide
RadiusCutoffInverted(fixed_radius_size) ==
    MulFix(fixed_radius_size, DEFAULT_PROPORTIONAL_RADIUS)

\* cutoff_size
RadiusCutoff(fixed_radius_size) ==
    DivFix(fixed_radius_size, DEFAULT_PROPORTIONAL_RADIUS)

get_corner_radius(x, roundness) ==
    IF roundness = <<>> THEN 0
    ELSE LET r == roundness[1]
         IN IF r.roundness_type \in {ROUNDNESS_PROPORTIONAL_RADIUS,
                                     ROUNDNESS_LEGACY}
            THEN MulFix(x, DEFAULT_PROPORTIONAL_RADIUS)
            ELSE IF r.roundness_type = ROUNDNESS_ADAPTIVE_RADIUS
            THEN LET fixed_radius_size ==
                         unwrap_or(r.value, DEFAULT_ADAPTIVE_RADIUS)
                 IN IF x <= RadiusCutoff(fixed_radius_size)
                    THEN MulFix(x, DEFAULT_PROPORTIONAL_RADIUS)
                    ELSE fixed_radius_size
            ELSE 0

(* SpecRadius: one call of get_corner_radius.                              *)

RadiusDims ==
    {0, Scale, 40 * Scale, 64 * Scale, 64 * Scale + 4, 100 * Scale,
     128 * Scale - 100, 128 * Scale, 128 * Scale + 4, 129 * Scale,
     200 * Scale}

RadiusValues == {<<>>, <<32 * Scale>>, <<16 * Scale>>}

RadiusTypes == {1, 2, 3, 4}

RadiusInputs ==
    {[fn |-> "get_corner_radius", x |-> x, roundness |-> r] :
        x \in RadiusDims,
        r \in {<<>>} \cup {<<[roundness_type |-> t, value |-> v]>> :
                              t \in RadiusTypes, v \in RadiusValues}}

InitRadius ==
    /\ fnArgs \in RadiusInputs
    /\ fnRes = <<>>
    /\ fnDone = FALSE
    /\ rng = [i \in Workers |-> ZeroU64]
    /\ RngIdle
    /\ RoughIdle

CallCornerRadius ==
    /\ ~fnDone
    /\ fnRes' = get_corner_radius(fnArgs.x, fnArgs.roundness)
    /\ fnDone' = TRUE
    /\ UNCHANGED <<fnArgs, rng, rngVars, roughVars>>

NextRadius == CallCornerRadius

SpecRadius == InitRadius /\ [][NextRadius]_vars

IsAdaptive(r) == r # <<>> /\ r[1].roundness_type = 3

\* C7: with adaptive roundness and fixed radius 32 (given or by default) the
\* radius is x * 0.25 for x <= 128 and 32 for x > 128; for any fixed radius
\* the cutoff is fixedRadius / 0.25; with no roundness descriptor it is 0.
C7_RadiusClamping ==
    fnDone =>
        LET x == fnArgs.x
            r == fnArgs.roundness
        IN /\ (IsAdaptive(r) /\ r[1].value \in {<<>>, <<32 * Scale>>})
                => /\ x <= 128 * Scale => fnRes = MulFix(x, Fx(1, 4))
                   /\ x > 128 * Scale => fnRes = 32 * Scale
           /\ (IsAdaptive(r) /\ r[1].value # <<>>)
                => /\ x <= DivFix(r[1].value[1], Fx(1, 4))
                        => fnRes = MulFix(x, Fx(1, 4))
                   /\ x > DivFix(r[1].value[1], Fx(1, 4))
                        => fnRes = r[1].value[1]
           /\ r = <<>> => fnRes = 0

\* the default radius clamps a shape wider than the cutoff
C7_Witness ==
    /\ fnDone
    /\ IsAdaptive(fnArgs.roundness)
    /\ fnArgs.roundness[1].value = <<>>
    /\ fnArgs.x = 128 * Scale + 4
    /\ fnRes = 32 * Scale

----------------------------------------------------------------------------
(* Spline builder (math_utils.rs).  A point is <<x, y>>, a segment is      *)
(* <<p0, cp1, cp2, p3>>.                                                   *)

\* a neighbour lookup that wraps around the ends
SplineGetWrapped(points, i) == points[(i % Len(points)) + 1]

\* get: the point at the 0-based index i, clamped to the ends
SplineGet(points, i) ==
    LET n == Len(points)
        index == IF i < 0 THEN 0 ELSE IF i >= n THEN n - 1 ELSE i
    IN points[index + 1]

\* the body of the loop for the 0-based index i
SplineSegment(points, tension, i) ==
    LET p0 == SplineGet(points, i - 1)
        p1 == SplineGet(points, i)
        p2 == SplineGet(points, i + 1)
        p3 == SplineGet(points, i + 2)
        tangent1_x == MulFix(p2[1] - p0[1], tension)
        tangent1_y == MulFix(p2[2] - p0[2], tension)
        tangent2_x == MulFix(p3[1] - p1[1], tension)
        tangent2_y == MulFix(p3[2] - p1[2], tension)
        cp1 == <<p1[1] + DivFix(tangent1_x, 3 * Scale),
                 p1[2] + DivFix(tangent1_y, 3 * Scale)>>
        cp2 == <<p2[1] - DivFix(tangent2_x, 3 * Scale),
                 p2[2] - DivFix(tangent2_y, 3 * Scale)>>
    IN <<p1, cp1, cp2, p2>>

\* the loop over 0..(points.len() - 1)
SplineLoop(points, tension) ==
    [k \in 1..(Len(points) - 1) |-> SplineSegment(points, tension, k - 1)]

\* the builder without the two-point case
catmull_rom_cubics_loop_only(points, tension) ==
    IF Len(points) < 2 THEN <<>> ELSE SplineLoop(points, tension)

catmull_rom_cubics(points, tension) ==
    IF Len(points) < 2 THEN <<>>
    ELSE IF Len(points) = 2
    THEN <<<<points[1], points[1], points[2], points[2]>>>>
    ELSE SplineLoop(points, tension)

(* SpecSpline: one call of catmull_rom_cubics.                             *)

MaxPoints == 4

SplinePoints == {<<0, 0>>, <<30 * Scale, 0>>, <<30 * Scale, 60 * Scale>>}

SplineTensions == {Fx(1, 2), Scale}

RECURSIVE SeqsUpTo(_, _)
SeqsUpTo(S, n) ==
    IF n = 0 THEN {<<>>}
    ELSE LET shorter == SeqsUpTo(S, n - 1)
         IN shorter \cup {Append(q, e) : q \in shorter, e \in S}

InitSpline ==
    /\ fnArgs \in {[fn |-> "catmull_rom_cubics", points |-> q, tension |-> t] :
                      q \in SeqsUpTo(SplinePoints, MaxPoints),
                      t \in SplineTensions}
    /\ fnRes = <<>>
    /\ fnDone = FALSE
    /\ rng = [i \in Workers |-> ZeroU64]
    /\ RngIdle
    /\ RoughIdle

CallCatmullRom ==
    /\ ~fnDone
    /\ fnRes' = catmull_rom_cubics(fnArgs.points, fnArgs.tension)
    /\ fnDone' = TRUE
    /\ UNCHANGED <<fnArgs, rng, rngVars, roughVars>>

NextSpline == CallCatmullRom

SpecSpline == InitSpline /\ [][NextSpline]_vars

\* p + (q - p) * tension / 3
Toward(p, q, tension) ==
    <<p[1] + DivFix(MulFix(q[1] - p[1], tension), 3 * Scale),
      p[2] + DivFix(MulFix(q[2] - p[2], tension), 3 * Scale)>>

\* C8: for n >= 3 points there are exactly n - 1 segments, segment i starts
\* at points[i] and ends at points[i + 1], each segment starts where the
\* previous one ends, and the neighbours before the first and after the last
\* point are the first and the last point themselves: the first control
\* point is pulled from the first point toward the second only, the last
\* control point from the last point toward the one before it only.
C8_SplineContinuity ==
    (fnDone /\ Len(fnArgs.points) >= 3) =>
        LET pts == fnArgs.points
            n == Len(pts)
        IN /\ Len(fnRes) = n - 1
           /\ \A i \in 1..(n - 1) :
                 /\ fnRes[i][1] = pts[i]
                 /\ fnRes[i][4] = pts[i + 1]
           /\ \A i \in 2..(n - 1) : fnRes[i][1] = fnRes[i - 1][4]
           /\ fnRes[1][2] = Toward(pts[1], pts[2], fnArgs.tension)
           /\ fnRes[n - 1][3] = Toward(pts[n], pts[n - 1], fnArgs.tension)

C8_Witness ==
    /\ fnDone
    /\ fnArgs.points = <<<<0, 0>>, <<30 * Scale, 0>>, <<30 * Scale, 60 * Scale>>>>
    /\ fnArgs.tension = Fx(1, 2)
    /\ Len(fnRes) = 2
    /\ fnRes[1][2] = <<5 * Scale, 0>>
    /\ fnRes[1][4] = fnRes[2][1]
    /\ fnRes[2][3] = <<30 * Scale, 50 * Scale>>

\* C9: fewer than 2 points give the empty list; exactly 2 points a, b give
\* the single segment (a, a, b, b), whatever the tension.
C9_SplineSmallInputs ==
    fnDone =>
        LET pts == fnArgs.points
        IN /\ Len(pts) < 2 => fnRes = <<>>
           /\ Len(pts) = 2
                => fnRes = <<<<pts[1], pts[1], pts[2], pts[2]>>>>

C9_Witness ==
    /\ fnDone
    /\ fnArgs.points = <<<<0, 0>>, <<30 * Scale, 60 * Scale>>>>
    /\ fnArgs.tension = Scale
    /\ fnRes = <<<<<<0, 0>>, <<0, 0>>, <<30 * Scale, 60 * Scale>>,
                   <<30 * Scale, 60 * Scale>>>>>>

----------------------------------------------------------------------------
(* Paths.  A path string is the sequence of its commands, each a record    *)
(* [c |-> letter, a |-> numbers]; a number printed with {:.2} is rounded   *)
(* to two decimals, a number printed with {} is kept as it is.             *)

Cmd(c, a) == [c |-> c, a |-> a]

\* format!("{:.2}"): round to a multiple of 0.01, ties to even
Fmt2(v) ==
    LET u == Scale \div 100
        q == v \div u
        r == v % u
    IN IF 2 * r < u THEN q * u
       ELSE IF 2 * r > u THEN (q + 1) * u
       ELSE IF q % 2 = 0 THEN q * u ELSE (q + 1) * u

Half(v) == DivFix(v, 2 * Scale)

\* the rounded path with the radius taken as given
generate_rounded_rect_path_unclamped(x, y, width, height, radius) ==
    IF radius <= 0
    THEN <<Cmd("M", <<x, y>>), Cmd("L", <<x + width, y>>),
           Cmd("L", <<x + width, y + height>>),
           Cmd("L", <<x, y + height>>), Cmd("Z", <<>>)>>
    ELSE <<Cmd("M", <<x + radius, y>>),
           Cmd("L", <<x + width - radius, y>>),
           Cmd("Q", <<x + width, y, x + width, y + radius>>),
           Cmd("L", <<x + width, y + height - radius>>),
           Cmd("Q", <<x + width, y + height, x + width - radius, y + height>>),
           Cmd("L", <<x + radius, y + height>>),
           Cmd("Q", <<x, y + height, x, y + height - radius>>),
           Cmd("L", <<x, y + radius>>),
           Cmd("Q", <<x, y, x + radius, y>>)>>

\* generate_rounded_rect_path
generate_rounded_rect_path(x, y, width, height, radius) ==
    LET r == MinI(MinI(radius, Half(width)), Half(height))
    IN IF r <= 0
       THEN <<Cmd("M", <<x, y>>), Cmd("L", <<x + width, y>>),
              Cmd("L", <<x + width, y + height>>),
              Cmd("L", <<x, y + height>>), Cmd("Z", <<>>)>>
       ELSE <<Cmd("M", <<x + r, y>>),
              Cmd("L", <<x + width - r, y>>),
              Cmd("Q", <<x + width, y, x + width, y + r>>),
              Cmd("L", <<x + width, y + height - r>>),
              Cmd("Q", <<x + width, y + height, x + width - r, y + height>>),
              Cmd("L", <<x + r, y + height>>),
              Cmd("Q", <<x, y + height, x, y + height - r>>),
              Cmd("L", <<x, y + r>>),
              Cmd("Q", <<x, y, x + r, y>>)>>

\* catmull_rom_path: the tangents are those of catmull_rom_cubics with
\* tension 0.5
catmull_rom_path(points) ==
    IF Len(points) <= 2
    THEN [k \in 1..Len(points) |->
             Cmd(IF k = 1 THEN "M" ELSE "L", points[k])]
    ELSE <<Cmd("M", points[1])>>
         \o [k \in 1..(Len(points) - 1) |->
                LET g == SplineSegment(points, Fx(1, 2), k - 1)
                IN Cmd("C", g[2] \o g[3] \o g[4])]

\* "M.. L.. L.. Z" of a polygon, two decimals
PolygonPath(points) ==
    [k \in 1..Len(points) |->
        Cmd(IF k = 1 THEN "M" ELSE "L",
            <<Fmt2(points[k][1]), Fmt2(points[k][2])>>)]
    \o <<Cmd("Z", <<>>)>>

----------------------------------------------------------------------------
(* Rough stroke generators (renderer.rs).  The generator state threaded    *)
(* through a pass is st = [rng, acc, loc, idx, n]: the LcgRng state, the   *)
(* items produced, the locals of the ellipse sampler, the index of the     *)
(* next item and the number of values drawn.                               *)

\* rng.range(-a, a) * roughness * roughness_gain, for the state s just drawn
Jit(s, a, roughness, gain) ==
    MulFix(MulFix(RangeOf(s, -a, a), roughness), gain)

\* the gain on the straight line from 1.0 at length 200 to 0.4 at length 500
RoughnessGainInterpolated(length) ==
    IF length < 200 * Scale THEN Scale
    ELSE IF length > 500 * Scale THEN Fx(4, 10)
    ELSE Scale - DivFix(MulFix(length - 200 * Scale, Fx(6, 10)), 300 * Scale)

\* roughness_gain
RoughnessGain(length) ==
    IF length < 200 * Scale THEN Scale
    ELSE IF length > 500 * Scale THEN Fx(4, 10)
    ELSE Fx(1233334, 1000000)
         - DivFix(MulFix(length, Fx(16668, 10000)), 1000 * Scale)

\* the body of generate_rough_line_segment for the states s of the values it
\* draws, in the order of the draws
RoughSegment(x1, y1, x2, y2, s, roughness, bowing, max_offset, preserve_vertices, is_overlay) ==
    LET length_sq == MulFix(x1 - x2, x1 - x2) + MulFix(y1 - y2, y1 - y2)
        length == SqrtFix(length_sq)
        gain == RoughnessGain(length)
        offset == IF MulFix(MulFix(max_offset, max_offset), 100 * Scale)
                       > length_sq
                  THEN DivFix(length, 10 * Scale) ELSE max_offset
        o == IF is_overlay THEN Half(offset) ELSE offset
        n == Len(s)
        diverge_point == Fx(2, 10) + MulFix(F64Of(s[1]), Fx(2, 10))
        mdx == DivFix(MulFix(MulFix(bowing, max_offset), y2 - y1), 200 * Scale)
        mdy == DivFix(MulFix(MulFix(bowing, max_offset), x1 - x2), 200 * Scale)
        mid_disp_x == MulFix(MulFix(RangeOf(s[2], -mdx, mdx), roughness), gain)
        mid_disp_y == MulFix(MulFix(RangeOf(s[3], -mdy, mdy), roughness), gain)
        start == IF preserve_vertices THEN <<x1, y1>>
                 ELSE <<x1 + Jit(s[4], o, roughness, gain),
                        y1 + Jit(s[5], o, roughness, gain)>>
        end == IF preserve_vertices THEN <<x2, y2>>
               ELSE <<x2 + Jit(s[6], o, roughness, gain),
                      y2 + Jit(s[7], o, roughness, gain)>>
        cp1_x == mid_disp_x + x1 + MulFix(x2 - x1, diverge_point)
                 + Jit(s[n - 3], o, roughness, gain)
        cp1_y == mid_disp_y + y1 + MulFix(y2 - y1, diverge_point)
                 + Jit(s[n - 2], o, roughness, gain)
        cp2_x == mid_disp_x + x1 + MulFix(2 * (x2 - x1), diverge_point)
                 + Jit(s[n - 1], o, roughness, gain)
        cp2_y == mid_disp_y + y1 + MulFix(2 * (y2 - y1), diverge_point)
                 + Jit(s[n], o, roughness, gain)
    IN [path |-> <<Cmd("M", <<Fmt2(start[1]), Fmt2(start[2])>>),
                   Cmd("C", <<Fmt2(cp1_x), Fmt2(cp1_y), Fmt2(cp2_x),
                              Fmt2(cp2_y), Fmt2(end[1]), Fmt2(end[2])>>)>>,
        rng |-> s[n],
        n |-> n]

\* generate_rough_line_segment: the path of the segment, the generator state
\* it leaves and the number of values it drew (the start and the end point
\* draw nothing when the vertices are preserved)
generate_rough_line_segment(x1, y1, x2, y2, s0, roughness, bowing, max_offset, preserve_vertices, is_overlay) ==
    RoughSegment(x1, y1, x2, y2,
                 LcgDraws(s0, IF preserve_vertices THEN 7 ELSE 11),
                 roughness, bowing, max_offset, preserve_vertices, is_overlay)

\* the body of the loop of jitter_polyline for the 0-based index i: the
\* jittered point and the generator state it leaves
JitterPoint(points, i, s0, amplitude) ==
    LET n == Len(points)
        p == points[i + 1]
        d == IF i = 0
             THEN <<points[2][1] - p[1], points[2][2] - p[2]>>
             ELSE IF i = n - 1
             THEN <<p[1] - points[i][1], p[2] - points[i][2]>>
             ELSE <<points[i + 2][1] - points[i][1],
                    points[i + 2][2] - points[i][2]>>
        \* .max(1e-6): the smallest positive length
        len == MaxI(SqrtFix(MulFix(d[1], d[1]) + MulFix(d[2], d[2])), 1)
        tx == DivFix(d[1], len)
        ty == DivFix(d[2], len)
        px == -ty
        py == tx
        s1 == LcgStep(s0)
        s2 == LcgStep(s1)
        perp == RangeOf(s1, -amplitude, amplitude)
        tang == RangeOf(s2, -MulFix(amplitude, Fx(3, 10)),
                        MulFix(amplitude, Fx(3, 10)))
    IN [point |-> <<p[1] + MulFix(px, perp) + MulFix(tx, tang),
                    p[2] + MulFix(py, perp) + MulFix(ty, tang)>>,
        rng |-> s2]

\* generate_rounded_rect_points: one arc of corner_steps + 1 points
CornerArc(ax, ay, r, from) ==
    [k \in 1..9 |->
        LET t == Fx(k - 1, 8)
            angle == from + MulFix(t, HalfPi)
        IN <<ax + MulFix(r, Cos(angle)), ay + MulFix(r, Sin(angle))>>]

generate_rounded_rect_points(x, y, width, height, radius) ==
    LET r == MinI(MinI(radius, Half(width)), Half(height))
    IN <<<<x + r, y>>>>
       \o CornerArc(x + width - r, y + r, r, -HalfPi)
       \o <<<<x + width, y + height - r>>>>
       \o CornerArc(x + width - r, y + height - r, r, 0)
       \o <<<<x + r, y + height>>>>
       \o CornerArc(x + r, y + height - r, r, HalfPi)
       \o <<<<x, y + r>>>>
       \o CornerArc(x + r, y + r, r, PiFix)

\* corner_points of generate_rough_rect_paths; g = <<x, y, width, height,
\* radius>>
RectCornerPoints(g) ==
    IF g[5] > 0
    THEN generate_rounded_rect_points(g[1], g[2], g[3], g[4], g[5])
    ELSE <<<<g[1], g[2]>>, <<g[1] + g[3], g[2]>>,
           <<g[1] + g[3], g[2] + g[4]>>, <<g[1], g[2] + g[4]>>>>

\* step_count and increment of generate_ellipse_points
EllipseStepCount(rx, ry) ==
    LET psq == SqrtFix(MulFix(TwoPi,
                   SqrtFix(Half(MulFix(rx, rx) + MulFix(ry, ry)))))
    IN CeilInt(MaxI(9 * Scale,
                    MulFix(DivFix(9 * Scale, SqrtFix(200 * Scale)), psq)))

EllipseIncrement(rx, ry) == DivFix(TwoPi, EllipseStepCount(rx, ry) * Scale)

\* a sampled point of generate_ellipse_points at the given angle, shrunk by
\* the factor k, jittered with the two states sa and sb just drawn
EllipsePoint(g, k, angle, sa, sb, offset_factor, roughness) ==
    <<g[1] + MulFix(MulFix(k, g[3]), Cos(angle))
        + MulFix(RangeOf(sa, -offset_factor, offset_factor), roughness),
      g[2] + MulFix(MulFix(k, g[4]), Sin(angle))
        + MulFix(RangeOf(sb, -offset_factor, offset_factor), roughness)>>

\* the early return with the exact geometry
IsExactStrict(call) ==
    \/ call.roughness < 0
    \/ (call.fn = "generate_rough_polygon_paths" /\ Len(call.g) < 3)

IsExact(call) ==
    \/ call.roughness <= 0
    \/ (call.fn = "generate_rough_polygon_paths" /\ Len(call.g) < 3)

\* what the early return pushes
ExactPaths(call) ==
    LET g == call.g
    IN CASE call.fn = "generate_rough_rect_paths" ->
              <<[path |-> generate_rounded_rect_path(g[1], g[2], g[3], g[4],
                                                     g[5]),
                 opacity |-> Scale]>>
         [] call.fn = "generate_rough_polygon_paths" ->
              <<[path |-> PolygonPath(g), opacity |-> Scale]>>
         [] call.fn = "generate_rough_ellipse_paths" ->
              <<[path |-> <<Cmd("M", <<g[1] + g[3], g[2]>>),
                            Cmd("A", <<g[3], g[4], 0, 1, 1, g[1] - g[3], g[2]>>),
                            Cmd("A", <<g[3], g[4], 0, 1, 1, g[1] + g[3], g[2]>>)>>,
                 opacity |-> Scale]>>

\* a tertiary pass as soon as there is any roughness
HasPassEager(call, p) == p = 1 \/ call.roughness > 0

\* whether pass p (1 primary, 2 secondary, 3 tertiary) is emitted
HasPass(call, p) ==
    \/ p = 1
    \/ p = 2 /\ call.roughness > 0
    \/ /\ p = 3
       /\ call.fn # "generate_rough_rect_paths"
       /\ call.roughness > Scale

PassSeed(call, p) == SeedWrappingAdd(call.seed, p - 1)

PassOpacity(p) ==
    IF p = 1 THEN Scale ELSE IF p = 2 THEN Fx(85, 100) ELSE Fx(7, 10)

\* every pass of the rectangle preserving its vertices
RectItemPinned(corner_points, call, p, st) ==
    generate_rough_line_segment(
        corner_points[st.idx + 1][1], corner_points[st.idx + 1][2],
        corner_points[((st.idx + 1) % Len(corner_points)) + 1][1],
        corner_points[((st.idx + 1) % Len(corner_points)) + 1][2],
        st.rng, call.roughness, Scale,
        MulFix(2 * Scale, SqrtFix(call.roughness)), TRUE, p = 2)

\* one more segment of the rectangle
RectItem(corner_points, call, p, st) ==
    generate_rough_line_segment(
        corner_points[st.idx + 1][1], corner_points[st.idx + 1][2],
        corner_points[((st.idx + 1) % Len(corner_points)) + 1][1],
        corner_points[((st.idx + 1) % Len(corner_points)) + 1][2],
        st.rng, call.roughness, Scale,
        MulFix(2 * Scale, SqrtFix(call.roughness)),
        p = 1 /\ call.roughness < Fx(3, 2), p = 2)

\* one more vertex of the polygon
PolygonItem(amplitude, call, p, st) ==
    JitterPoint(call.g, st.idx, st.rng,
                IF p = 1 THEN amplitude
                ELSE IF p = 2 THEN MulFix(amplitude, Fx(5, 10))
                ELSE MulFix(amplitude, Fx(3, 10)))

\* one more sample of the ellipse: the shrink factor and the angle of the
\* sample, then the locals afterwards; s are the states of the values drawn
EllipseSample(increment, rad_offset, st) ==
    IF st.idx = 0
    THEN [k |-> Fx(9, 10), angle |-> rad_offset - increment]
    ELSE IF st.loc.angle < TwoPi + rad_offset - Fx(1, 100)
    THEN [k |-> Scale, angle |-> st.loc.angle]
    ELSE CASE st.loc.closing = 0 ->
                [k |-> Scale,
                 angle |-> rad_offset + TwoPi
                           + MulFix(MulFix(increment, Fx(5, 10)), Fx(5, 10))]
           [] st.loc.closing = 1 ->
                [k |-> Fx(98, 100),
                 angle |-> rad_offset + MulFix(increment, Fx(5, 10))]
           [] OTHER ->
                [k |-> Fx(9, 10),
                 angle |-> rad_offset
                           + MulFix(MulFix(increment, Fx(5, 10)), Fx(5, 10))]

EllipseLocals(increment, rad_offset, st) ==
    IF st.idx = 0
    THEN [rad_offset |-> rad_offset, angle |-> rad_offset, closing |-> 0]
    ELSE IF st.loc.angle < TwoPi + rad_offset - Fx(1, 100)
    THEN [st.loc EXCEPT !.angle = @ + increment]
    ELSE [st.loc EXCEPT !.closing = @ + 1]

EllipseItem(sample, locals, s, call, p, st) ==
    [rng |-> s[Len(s)],
     acc |-> Append(st.acc,
                EllipsePoint(call.g, sample.k, sample.angle,
                             s[Len(s) - 1], s[Len(s)],
                             IF p = 1 THEN Scale
                             ELSE IF p = 2 THEN Fx(15, 10) ELSE Fx(12, 10),
                             IF p = 3 THEN MulFix(call.roughness, Fx(7, 10))
                             ELSE call.roughness)),
     loc |-> locals, idx |-> st.idx + 1, n |-> st.n + Len(s)]

\* rad_offset: drawn by the first item, a local afterwards
EllipseRadOffset(s, st) ==
    IF st.idx = 0 THEN RangeOf(s[1], -Fx(1, 2), Fx(1, 2)) - HalfPi
    ELSE st.loc.rad_offset

EllipseStep(increment, s, call, p, st) ==
    EllipseItem(EllipseSample(increment, EllipseRadOffset(s, st), st),
                EllipseLocals(increment, EllipseRadOffset(s, st), st),
                s, call, p, st)

\* the item appended to the state of the pass
SegmentItem(seg, st) ==
    [rng |-> seg.rng, acc |-> Append(st.acc, seg.path), loc |-> st.loc,
     idx |-> st.idx + 1, n |-> st.n + seg.n]

VertexItem(j, st) ==
    [rng |-> j.rng, acc |-> Append(st.acc, j.point), loc |-> st.loc,
     idx |-> st.idx + 1, n |-> st.n + 2]

\* one item of pass p: a segment of the rectangle, a vertex of the polygon,
\* a sample of the ellipse
ItemStep(call, p, st) ==
    CASE call.fn = "generate_rough_rect_paths" ->
           SegmentItem(RectItem(RectCornerPoints(call.g), call, p, st), st)
      [] call.fn = "generate_rough_polygon_paths" ->
           VertexItem(PolygonItem(MulFix(Fx(12, 10), MaxI(call.roughness, 0)),
                                  call, p, st), st)
      [] call.fn = "generate_rough_ellipse_paths" ->
           EllipseStep(EllipseIncrement(call.g[3], call.g[4]),
                       LcgDraws(st.rng, IF st.idx = 0 THEN 3 ELSE 2),
                       call, p, st)

\* whether the loop of the pass has produced its last item
PassFinished(call, st) ==
    CASE call.fn = "generate_rough_rect_paths" ->
           st.idx = Len(RectCornerPoints(call.g))
      [] call.fn = "generate_rough_polygon_paths" -> st.idx = Len(call.g)
      [] call.fn = "generate_rough_ellipse_paths" ->
           st.idx > 0 /\ st.loc.closing = 3

RECURSIVE Flatten(_)
Flatten(ss) == IF ss = <<>> THEN <<>> ELSE Head(ss) \o Flatten(Tail(ss))

\* the path string pushed at the end of the pass
PassPath(call, st) ==
    CASE call.fn = "generate_rough_rect_paths" -> Flatten(st.acc)
      [] call.fn = "generate_rough_polygon_paths" -> PolygonPath(st.acc)
      [] call.fn = "generate_rough_ellipse_paths" -> catmull_rom_path(st.acc)

(* SpecRough: two workers, each calling the generators again and again;    *)
(* their steps interleave at every item.                                   *)

RectGeometry == <<0, 0, 100 * Scale, 50 * Scale, 0>>

RoundedRectGeometry == <<0, 0, 100 * Scale, 100 * Scale, 25 * Scale>>

TrianglePoints ==
    <<<<50 * Scale, 0>>, <<100 * Scale, 50 * Scale>>, <<0, 50 * Scale>>>>

EllipseGeometry == <<20 * Scale, 10 * Scale, 20 * Scale, 10 * Scale>>

RoughCall(fn, g, roughness, seed) ==
    [fn |-> fn, g |-> g, roughness |-> roughness, seed |-> seed]

RoughCalls ==
    {RoughCall("generate_rough_rect_paths", RoundedRectGeometry, 0, 7),
     RoughCall("generate_rough_rect_paths", RoundedRectGeometry, 0, 8),
     RoughCall("generate_rough_rect_paths", RectGeometry, Scale, 7),
     RoughCall("generate_rough_rect_paths", RectGeometry, 2 * Scale, 7),
     RoughCall("generate_rough_polygon_paths", TrianglePoints, 0, 7),
     RoughCall("generate_rough_polygon_paths", TrianglePoints, -Scale, 8),
     RoughCall("generate_rough_polygon_paths", TrianglePoints, 2 * Scale, 7),
     RoughCall("generate_rough_ellipse_paths", EllipseGeometry, 0, 7),
     RoughCall("generate_rough_ellipse_paths", EllipseGeometry, Scale, 7)}

InitRough ==
    /\ rng = [w \in Workers |-> ZeroU64]
    /\ RoughIdle
    /\ RngIdle
    /\ FnIdle

\* a generator seeded from the seed and from who is calling
SeededPerCaller(w, seed) == LcgNew(SeedWrappingAdd(seed, w))

\* let mut rng = LcgRng::new(seed)
FreshRng(w, seed) == LcgNew(seed)

\* the generator state of worker w
StateOf(w) ==
    [rng |-> rng[Own(w)], acc |-> acc[w], loc |-> loc[w], idx |-> idx[w],
     n |-> draws[w][2]]

\* entry of the generator: the early return, or the start of the first pass
Start(w, call) ==
    /\ pc[w] = "idle"
    /\ cur' = [cur EXCEPT ![w] = call]
    /\ draws' = [draws EXCEPT ![w] = <<0, 0>>]
    /\ IF IsExact(call)
       THEN /\ out' = [out EXCEPT ![w] = ExactPaths(call)]
            /\ pc' = [pc EXCEPT ![w] = "done"]
            /\ UNCHANGED pass
       ELSE /\ out' = [out EXCEPT ![w] = <<>>]
            /\ pc' = [pc EXCEPT ![w] = "begin"]
            /\ pass' = [pass EXCEPT ![w] = 1]
    /\ UNCHANGED <<rng, idx, acc, loc, rngVars, fnVars>>

\* the generator of the pass is constructed from the seed of the pass
BeginPass(w) ==
    /\ pc[w] = "begin"
    /\ rng' = [rng EXCEPT ![Own(w)] = FreshRng(w, PassSeed(cur[w], pass[w]))]
    /\ idx' = [idx EXCEPT ![w] = 0]
    /\ acc' = [acc EXCEPT ![w] = <<>>]
    /\ loc' = [loc EXCEPT ![w] = ZeroLoc]
    /\ draws' = [draws EXCEPT ![w] = <<@[1] + 1, @[2]>>]
    /\ pc' = [pc EXCEPT ![w] = "step"]
    /\ UNCHANGED <<cur, pass, out, rngVars, fnVars>>

\* one item of the pass
Step(w) ==
    /\ pc[w] = "step"
    /\ ~PassFinished(cur[w], StateOf(w))
    /\ \E st \in {ItemStep(cur[w], pass[w], StateOf(w))} :
          /\ rng' = [rng EXCEPT ![Own(w)] = st.rng]
          /\ acc' = [acc EXCEPT ![w] = st.acc]
          /\ loc' = [loc EXCEPT ![w] = st.loc]
          /\ idx' = [idx EXCEPT ![w] = st.idx]
          /\ draws' = [draws EXCEPT ![w] = <<@[1], st.n>>]
    /\ UNCHANGED <<pc, cur, pass, out, rngVars, fnVars>>

\* the path of the pass is pushed; the next pass starts or the call returns
EndPass(w) ==
    /\ pc[w] = "step"
    /\ PassFinished(cur[w], StateOf(w))
    /\ out' = [out EXCEPT ![w] =
                  Append(@, [path |-> PassPath(cur[w], StateOf(w)),
                             opacity |-> PassOpacity(pass[w])])]
    /\ IF HasPass(cur[w], pass[w] + 1)
       THEN /\ pass' = [pass EXCEPT ![w] = @ + 1]
            /\ pc' = [pc EXCEPT ![w] = "begin"]
       ELSE /\ pc' = [pc EXCEPT ![w] = "done"]
            /\ UNCHANGED pass
    /\ UNCHANGED <<rng, cur, idx, acc, loc, draws, rngVars, fnVars>>

\* the caller takes the result; the locals of the call are gone
Finish(w) ==
    /\ pc[w] = "done"
    /\ pc' = [pc EXCEPT ![w] = "idle"]
    /\ cur' = [cur EXCEPT ![w] = NoCall]
    /\ pass' = [pass EXCEPT ![w] = 0]
    /\ idx' = [idx EXCEPT ![w] = 0]
    /\ acc' = [acc EXCEPT ![w] = <<>>]
    /\ loc' = [loc EXCEPT ![w] = ZeroLoc]
    /\ out' = [out EXCEPT ![w] = <<>>]
    /\ draws' = [draws EXCEPT ![w] = <<0, 0>>]
    /\ UNCHANGED <<rng, rngVars, fnVars>>

NextRough ==
    \E w \in Workers :
        \/ \E call \in RoughCalls : Start(w, call)
        \/ BeginPass(w)
        \/ Step(w)
        \/ EndPass(w)
        \/ Finish(w)

SpecRough == InitRough /\ [][NextRough]_vars

\* the call run alone, start to end, with nothing else in between
RECURSIVE RunPass(_, _, _)
RunPass(call, p, st) ==
    IF PassFinished(call, st) THEN st
    ELSE RunPass(call, p, ItemStep(call, p, st))

PassCount(call) ==
    IF HasPass(call, 3) THEN 3 ELSE IF HasPass(call, 2) THEN 2 ELSE 1

RoughRef(call) ==
    IF IsExact(call) THEN ExactPaths(call)
    ELSE [p \in 1..PassCount(call) |->
             [path |-> PassPath(call,
                          RunPass(call, p,
                                  [rng |-> LcgNew(PassSeed(call, p)),
                                   acc |-> <<>>, loc |-> ZeroLoc, idx |-> 0,
                                   n |-> 0])),
              opacity |-> PassOpacity(p)]]

\* C1: two calls of a rough generator with identical arguments (geometry,
\* roughness, seed) return identical lists of (path, opacity) pairs, however
\* many calls either caller has made before: nothing survives a call.
C1_SameArgumentsSamePaths ==
    \A w1 \in Workers, w2 \in Workers :
        (pc[w1] = "done" /\ pc[w2] = "done" /\ cur[w1] = cur[w2])
            => out[w1] = out[w2]

C1_Witness ==
    /\ pc[1] = "done" /\ pc[2] = "done"
    /\ cur[1] = cur[2]
    /\ cur[1].fn = "generate_rough_ellipse_paths"
    /\ cur[1].roughness = Scale
    /\ Len(out[1]) = 2
    /\ out[1] = out[2]
    /\ out[1][1].path # out[1][2].path

\* C3: the paths of an element are those of the element rendered alone,
\* whatever the other element is and however the items of the two (and so
\* their RNG draws) interleave.
C3_ElementsIndependent ==
    \A w \in Workers : pc[w] = "done" => out[w] = RoughRef(cur[w])

C3_Witness ==
    /\ pc[1] = "done"
    /\ cur[1].fn = "generate_rough_polygon_paths"
    /\ cur[1].roughness = 2 * Scale
    /\ Len(out[1]) = 3
    /\ draws[1] = <<3, 18>>
    /\ pc[2] = "step"
    /\ cur[2].fn = "generate_rough_rect_paths"
    /\ pass[2] = 2
    /\ idx[2] = 2

\* the geometry of the call with nothing added to its coordinates
ExactGeometry(call) ==
    LET g == call.g
    IN CASE call.fn = "generate_rough_rect_paths" ->
              IF g[5] <= 0
              THEN <<Cmd("M", <<g[1], g[2]>>),
                     Cmd("L", <<g[1] + g[3], g[2]>>),
                     Cmd("L", <<g[1] + g[3], g[2] + g[4]>>),
                     Cmd("L", <<g[1], g[2] + g[4]>>), Cmd("Z", <<>>)>>
              ELSE generate_rounded_rect_path(g[1], g[2], g[3], g[4], g[5])
         [] call.fn = "generate_rough_polygon_paths" ->
              [k \in 1..(Len(g) + 1) |->
                  IF k > Len(g) THEN Cmd("Z", <<>>)
                  ELSE Cmd(IF k = 1 THEN "M" ELSE "L",
                           <<Fmt2(g[k][1]), Fmt2(g[k][2])>>)]
         [] call.fn = "generate_rough_ellipse_paths" ->
              <<Cmd("M", <<g[1] + g[3], g[2]>>),
                Cmd("A", <<g[3], g[4], 0, 1, 1, g[1] - g[3], g[2]>>),
                Cmd("A", <<g[3], g[4], 0, 1, 1, g[1] + g[3], g[2]>>)>>

\* C10: with roughness <= 0 each generator returns exactly one pair, of
\* opacity 1.0, whose path is the exact geometry of its input; the seed does
\* not matter and no RNG is constructed or advanced.
C10_ZeroRoughnessExact ==
    \A w \in Workers :
        (pc[w] = "done" /\ cur[w].roughness <= 0) =>
            /\ Len(out[w]) = 1
            /\ out[w][1].opacity = Scale
            /\ out[w][1].path = ExactGeometry(cur[w])
            /\ draws[w] = <<0, 0>>
            /\ \A v \in Workers :
                  (/\ pc[v] = "done"
                   /\ cur[v].fn = cur[w].fn
                   /\ cur[v].g = cur[w].g
                   /\ cur[v].roughness <= 0) => out[v] = out[w]

C10_Witness ==
    /\ pc[1] = "done" /\ pc[2] = "done"
    /\ cur[1].fn = "generate_rough_rect_paths"
    /\ cur[2].fn = "generate_rough_rect_paths"
    /\ cur[1].g = RoundedRectGeometry /\ cur[2].g = RoundedRectGeometry
    /\ cur[1].roughness = 0 /\ cur[2].roughness = 0
    /\ cur[1].seed = 7 /\ cur[2].seed = 8
    /\ rng[1] # ZeroU64
    /\ out[1] = out[2]

-----------------------------------------------------------------------------
(* Pass schedule.                                                          *)

\* C11: a rough generator returns 1 to 3 passes, exactly 1 when roughness
\* <= 0; the passes come in the order primary, secondary, tertiary with
\* opacity multipliers 1.0, 0.85, 0.7, and pass p draws from a generator
\* seeded with seed + (p - 1); a third pass is there only when roughness > 1.0.
C11_PassSchedule ==
    \A w \in Workers :
        /\ (pc[w] = "done") =>
              /\ Len(out[w]) \in 1..3
              /\ cur[w].roughness <= 0 => Len(out[w]) = 1
              /\ Len(out[w]) = 3 => cur[w].roughness > Scale
              /\ \A p \in 1..Len(out[w]) :
                    out[w][p].opacity = <<Scale, Fx(85, 100), Fx(7, 10)>>[p]
        /\ (pc[w] = "step") =>
              /\ pass[w] \in 1..3
              /\ Len(out[w]) = pass[w] - 1
              /\ draws[w][1] = pass[w]
              /\ idx[w] = 0 =>
                    rng[Own(w)] = LcgNew(IF cur[w].seed + pass[w] - 1 > MaxI32
                                         THEN cur[w].seed + pass[w] - 1
                                              - 2 * MaxI32 - 2
                                         ELSE cur[w].seed + pass[w] - 1)

C11_Witness ==
    /\ pc[1] = "done"
    /\ cur[1].fn = "generate_rough_polygon_paths"
    /\ cur[1].roughness = 2 * Scale
    /\ Len(out[1]) = 3
    /\ out[1][3].opacity = Fx(7, 10)
    /\ pc[2] = "done"
    /\ cur[2].fn = "generate_rough_rect_paths"
    /\ cur[2].roughness = 2 * Scale
    /\ Len(out[2]) = 2

-----------------------------------------------------------------------------
(* clip_line_to_rect (renderer.rs): Cohen-Sutherland clipping.  An outcode  *)
(* is the set of the sides the point is beyond.                             *)

\* compute_code with the upper bounds never tested
compute_code_lower_only(x, y, rx, ry, rw, rh) ==
    (IF x < rx THEN {"LEFT"} ELSE {}) \cup (IF y < ry THEN {"TOP"} ELSE {})

\* compute_code
compute_code(x, y, rx, ry, rw, rh) ==
    (IF x < rx THEN {"LEFT"} ELSE IF x > rx + rw THEN {"RIGHT"} ELSE {})
    \cup (IF y < ry THEN {"TOP"} ELSE IF y > ry + rh THEN {"BOTTOM"} ELSE {})

\* (x, y): where the line through the two endpoints meets the side of the
\* rectangle that code_out names first
ClipPoint(l, code_out, rx, ry, rw, rh) ==
    IF "TOP" \in code_out
    THEN <<l.x1 + DivFix(MulFix(l.x2 - l.x1, ry - l.y1), l.y2 - l.y1), ry>>
    ELSE IF "BOTTOM" \in code_out
    THEN <<l.x1 + DivFix(MulFix(l.x2 - l.x1, ry + rh - l.y1), l.y2 - l.y1),
           ry + rh>>
    ELSE IF "RIGHT" \in code_out
    THEN <<rx + rw,
           l.y1 + DivFix(MulFix(l.y2 - l.y1, rx + rw - l.x1), l.x2 - l.x1)>>
    ELSE <<rx,
           l.y1 + DivFix(MulFix(l.y2 - l.y1, rx - l.x1), l.x2 - l.x1)>>

\* one iteration of the loop on the locals l = [x1, y1, x2, y2, ret]
ClipIteration(l, rx, ry, rw, rh) ==
    LET code1 == compute_code(l.x1, l.y1, rx, ry, rw, rh)
        code2 == compute_code(l.x2, l.y2, rx, ry, rw, rh)
    IN IF code1 \cup code2 = {} THEN [l EXCEPT !.ret = "Some"]
       ELSE IF code1 \cap code2 # {} THEN [l EXCEPT !.ret = "None"]
       ELSE IF code1 # {}
       THEN [l EXCEPT !.x1 = ClipPoint(l, code1, rx, ry, rw, rh)[1],
                      !.y1 = ClipPoint(l, code1, rx, ry, rw, rh)[2]]
       ELSE [l EXCEPT !.x2 = ClipPoint(l, code2, rx, ry, rw, rh)[1],
                      !.y2 = ClipPoint(l, code2, rx, ry, rw, rh)[2]]

(* SpecClip: one call of clip_line_to_rect, one loop iteration per step.    *)

ClipXs == {-2, 0, 1, 3, 4, 6}

ClipYs == {-2, 0, 1, 3, 5}

\* <<rx, ry, rw, rh>> in whole units
ClipRects == {<<0, 0, 4, 3>>, <<1, 0, 3, 3>>, <<0, 0, 0, 3>>, <<0, 0, 4, 0>>,
              <<0, 0, 0, 0>>}

ClipInputs ==
    {[fn |-> "clip_line_to_rect",
      x1 |-> a * Scale, y1 |-> b * Scale, x2 |-> c * Scale, y2 |-> d * Scale,
      rx |-> r[1] * Scale, ry |-> r[2] * Scale,
      rw |-> r[3] * Scale, rh |-> r[4] * Scale] :
        a \in ClipXs, b \in ClipYs, c \in ClipXs, d \in ClipYs, r \in ClipRects}

InitClip ==
    /\ fnArgs \in ClipInputs
    /\ fnRes = [x1 |-> fnArgs.x1, y1 |-> fnArgs.y1,
                x2 |-> fnArgs.x2, y2 |-> fnArgs.y2, ret |-> "loop"]
    /\ fnDone = FALSE
    /\ rng = [i \in Workers |-> ZeroU64]
    /\ RngIdle
    /\ RoughIdle

ClipLoop ==
    /\ ~fnDone
    /\ fnRes' = ClipIteration(fnRes, fnArgs.rx, fnArgs.ry, fnArgs.rw, fnArgs.rh)
    /\ fnDone' = (fnRes'.ret # "loop")
    /\ UNCHANGED <<fnArgs, rng, rngVars, roughVars>>

NextClip == ClipLoop

SpecClip == InitClip /\ [][NextClip]_vars

\* twice the signed area of the triangle (a, b, c)
Orient(a, b, c) ==
    (b[1] - a[1]) * (c[2] - a[2]) - (b[2] - a[2]) * (c[1] - a[1])

\* c is on the segment a-b, for c on the line through a and b
Between(a, b, c) ==
    /\ MinI(a[1], b[1]) <= c[1] /\ c[1] <= MaxI(a[1], b[1])
    /\ MinI(a[2], b[2]) <= c[2] /\ c[2] <= MaxI(a[2], b[2])

\* the closed segments a-b and c-d have a common point
SegmentsMeet(a, b, c, d) ==
    \/ /\ Sgn(Orient(a, b, c)) * Sgn(Orient(a, b, d)) < 0
       /\ Sgn(Orient(c, d, a)) * Sgn(Orient(c, d, b)) < 0
    \/ Orient(a, b, c) = 0 /\ Between(a, b, c)
    \/ Orient(a, b, d) = 0 /\ Between(a, b, d)
    \/ Orient(c, d, a) = 0 /\ Between(c, d, a)
    \/ Orient(c, d, b) = 0 /\ Between(c, d, b)

InRect(p, rx, ry, rw, rh) ==
    rx <= p[1] /\ p[1] <= rx + rw /\ ry <= p[2] /\ p[2] <= ry + rh

\* the segment of the call has a point in the closed rectangle; whole units,
\* exact
LineMeetsRect(a) ==
    LET p == <<a.x1 \div Scale, a.y1 \div Scale>>
        q == <<a.x2 \div Scale, a.y2 \div Scale>>
        rx == a.rx \div Scale
        ry == a.ry \div Scale
        rw == a.rw \div Scale
        rh == a.rh \div Scale
    IN \/ InRect(p, rx, ry, rw, rh)
       \/ InRect(q, rx, ry, rw, rh)
       \/ SegmentsMeet(p, q, <<rx, ry>>, <<rx + rw, ry>>)
       \/ SegmentsMeet(p, q, <<rx + rw, ry>>, <<rx + rw, ry + rh>>)
       \/ SegmentsMeet(p, q, <<rx + rw, ry + rh>>, <<rx, ry + rh>>)
       \/ SegmentsMeet(p, q, <<rx, ry + rh>>, <<rx, ry>>)

\* the point (x, y) is on the segment of the call, to the resolution of the
\* arithmetic
OnLine(a, x, y) ==
    /\ AbsI(((a.x2 - a.x1) \div Scale) * (y - a.y1)
            - ((a.y2 - a.y1) \div Scale) * (x - a.x1))
         <= (AbsI(a.x2 - a.x1) + AbsI(a.y2 - a.y1)) \div Scale
    /\ MinI(a.x1, a.x2) <= x /\ x <= MaxI(a.x1, a.x2)
    /\ MinI(a.y1, a.y2) <= y /\ y <= MaxI(a.y1, a.y2)

\* C12: clip_line_to_rect returns None exactly for the lines with no point in
\* the closed rectangle; for the others it returns one segment whose two
\* endpoints are in the rectangle (boundary included) and on the original
\* line; a line with both endpoints inside comes back unchanged.
C12_ClipToRect ==
    fnDone =>
        /\ fnRes.ret = "None" <=> ~LineMeetsRect(fnArgs)
        /\ fnRes.ret = "Some" =>
              /\ InRect(<<fnRes.x1, fnRes.y1>>, fnArgs.rx, fnArgs.ry,
                        fnArgs.rw, fnArgs.rh)
              /\ InRect(<<fnRes.x2, fnRes.y2>>, fnArgs.rx, fnArgs.ry,
                        fnArgs.rw, fnArgs.rh)
              /\ OnLine(fnArgs, fnRes.x1, fnRes.y1)
              /\ OnLine(fnArgs, fnRes.x2, fnRes.y2)
        /\ (/\ InRect(<<fnArgs.x1, fnArgs.y1>>, fnArgs.rx, fnArgs.ry,
                      fnArgs.rw, fnArgs.rh)
            /\ InRect(<<fnArgs.x2, fnArgs.y2>>, fnArgs.rx, fnArgs.ry,
                      fnArgs.rw, fnArgs.rh)) =>
              /\ fnRes.ret = "Some"
              /\ <<fnRes.x1, fnRes.y1, fnRes.x2, fnRes.y2>>
                   = <<fnArgs.x1, fnArgs.y1, fnArgs.x2, fnArgs.y2>>

\* a line from the upper left to the lower right through the rectangle, and
\* both endpoints trimmed to the boundary
C12_Witness ==
    /\ fnDone
    /\ fnArgs.x1 = -2 * Scale /\ fnArgs.y1 = -2 * Scale
    /\ fnArgs.x2 = 6 * Scale /\ fnArgs.y2 = 5 * Scale
    /\ <<fnArgs.rx, fnArgs.ry, fnArgs.rw, fnArgs.rh>>
         = <<0, 0, 4 * Scale, 3 * Scale>>
    /\ fnRes.ret = "Some"
    /\ fnRes.y1 = 0 /\ fnRes.x1 > 0
    /\ fnRes.y2 = 3 * Scale /\ fnRes.x2 < 4 * Scale

-----------------------------------------------------------------------------
(* generate_hachure_pattern (renderer.rs).                                  *)

RECURSIVE ClipRun(_, _, _, _, _)
ClipRun(l, rx, ry, rw, rh) ==
    IF l.ret # "loop" THEN l
    ELSE ClipRun(ClipIteration(l, rx, ry, rw, rh), rx, ry, rw, rh)

\* clip_line_to_rect: the locals at the return, ret = "Some" or "None"
clip_line_to_rect(x1, y1, x2, y2, rx, ry, rw, rh) ==
    ClipRun([x1 |-> x1, y1 |-> y1, x2 |-> x2, y2 |-> y2, ret |-> "loop"],
            rx, ry, rw, rh)

\* let gap = 4.0
HachureGap == 4 * Scale

\* let hachure_angle = -45.0
HachureAngle == -45 * Scale

HachureDiagonal(a) ==
    SqrtFix(MulFix(a.width, a.width) + MulFix(a.height, a.height))

\* num_lines
HachureNumLines(a) == CeilInt(DivFix(HachureDiagonal(a), HachureGap))

\* the clipped line of index i
HachureClip(a, i, cos_angle, sin_angle, diagonal) ==
    clip_line_to_rect(
        a.x + Half(a.width) + MulFix(-sin_angle, i * HachureGap)
            - MulFix(cos_angle, diagonal),
        a.y + Half(a.height) + MulFix(cos_angle, i * HachureGap)
            - MulFix(sin_angle, diagonal),
        a.x + Half(a.width) + MulFix(-sin_angle, i * HachureGap)
            + MulFix(cos_angle, diagonal),
        a.y + Half(a.height) + MulFix(cos_angle, i * HachureGap)
            + MulFix(sin_angle, diagonal),
        a.x, a.y, a.width, a.height)

\* lines after the iteration of index i
HachurePush(lines, c) ==
    IF c.ret = "Some"
    THEN Append(lines, <<Cmd("M", <<Fmt2(c.x1), Fmt2(c.y1)>>),
                         Cmd("L", <<Fmt2(c.x2), Fmt2(c.y2)>>)>>)
    ELSE lines

(* SpecHachure: one call of generate_hachure_pattern, one line per step.    *)

HachureXs == {0, 10 * Scale}

HachureWidths == {0, 8 * Scale, 12 * Scale}

HachureHeights == {0, 6 * Scale}

\* degrees
HachureRotations == {0, 45 * Scale, 135 * Scale}

InitHachure ==
    /\ fnArgs \in {[fn |-> "generate_hachure_pattern", x |-> x, y |-> 0,
                    width |-> w, height |-> h, angle |-> r] :
                      x \in HachureXs, w \in HachureWidths,
                      h \in HachureHeights, r \in HachureRotations}
    /\ fnRes = [i |-> -HachureNumLines(fnArgs), lines |-> <<>>]
    /\ fnDone = FALSE
    /\ rng = [i \in Workers |-> ZeroU64]
    /\ RngIdle
    /\ RoughIdle

HachureLine ==
    /\ ~fnDone
    /\ fnRes.i <= HachureNumLines(fnArgs)
    /\ fnRes' = [i |-> fnRes.i + 1,
                 lines |-> HachurePush(fnRes.lines,
                              HachureClip(fnArgs, fnRes.i,
                                  Cos(ToRadians(fnArgs.angle + HachureAngle)),
                                  Sin(ToRadians(fnArgs.angle + HachureAngle)),
                                  HachureDiagonal(fnArgs)))]
    /\ UNCHANGED <<fnArgs, fnDone, rng, rngVars, roughVars>>

\* lines.join(" ")
HachureReturn ==
    /\ ~fnDone
    /\ fnRes.i > HachureNumLines(fnArgs)
    /\ fnDone' = TRUE
    /\ UNCHANGED <<fnArgs, fnRes, rng, rngVars, roughVars>>

NextHachure == HachureLine \/ HachureReturn

SpecHachure == InitHachure /\ [][NextHachure]_vars

\* C13: a rectangle of width 0 or of height 0 gets an empty hachure pattern,
\* wherever it is and whatever its rotation.
C13_ZeroAreaNoLines ==
    (fnDone /\ (fnArgs.width = 0 \/ fnArgs.height = 0)) => fnRes.lines = <<>>

-----------------------------------------------------------------------------
(* SpecRoundedRect: one call of generate_rounded_rect_path, with a radius   *)
(* given or computed by get_corner_radius as render_element does.           *)

RoundedRectOrigins == {0, 10 * Scale}

RoundedRectSizes == {0, 30 * Scale, 100 * Scale}

RoundedRectRadii == {-5 * Scale, 0, 10 * Scale, 60 * Scale}

ProportionalRoundness ==
    <<[roundness_type |-> ROUNDNESS_PROPORTIONAL_RADIUS, value |-> <<>>]>>

InitRoundedRect ==
    /\ fnArgs \in {[fn |-> "generate_rounded_rect_path", x |-> o, y |-> p,
                    width |-> w, height |-> h, radius |-> r] :
                      o \in RoundedRectOrigins, p \in RoundedRectOrigins,
                      w \in RoundedRectSizes, h \in RoundedRectSizes,
                      r \in RoundedRectRadii
                            \cup {get_corner_radius(MinI(w2, h2),
                                                    ProportionalRoundness) :
                                    w2 \in RoundedRectSizes,
                                    h2 \in RoundedRectSizes}}
    /\ fnRes = <<>>
    /\ fnDone = FALSE
    /\ rng = [i \in Workers |-> ZeroU64]
    /\ RngIdle
    /\ RoughIdle

CallRoundedRectPath ==
    /\ ~fnDone
    /\ fnRes' = generate_rounded_rect_path(fnArgs.x, fnArgs.y, fnArgs.width,
                                           fnArgs.height, fnArgs.radius)
    /\ fnDone' = TRUE
    /\ UNCHANGED <<fnArgs, rng, rngVars, roughVars>>

NextRoundedRect == CallRoundedRectPath

SpecRoundedRect == InitRoundedRect /\ [][NextRoundedRect]_vars

\* where a path command ends
EndOf(cmd) == <<cmd.a[Len(cmd.a) - 1], cmd.a[Len(cmd.a)]>>

\* the Q command q, entered at the point s, rounds the corner c with radius
\* r: it starts and ends r away from c, on the two sides that meet at c
QuarterRound(s, q, c, r) ==
    /\ <<q.a[1], q.a[2]>> = c
    /\ \/ s[2] = c[2] /\ AbsI(s[1] - c[1]) = r
          /\ EndOf(q)[1] = c[1] /\ AbsI(EndOf(q)[2] - c[2]) = r
       \/ s[1] = c[1] /\ AbsI(s[2] - c[2]) = r
          /\ EndOf(q)[2] = c[2] /\ AbsI(EndOf(q)[1] - c[1]) = r

\* C14: with r = min(radius, width / 2, height / 2) > 0 the rounded path
\* starts at (x + r, y), runs along the top, right, bottom and left side in
\* that order, rounds the corner after each side with one quarter-round
\* curve (four in all) and ends where it started; with r <= 0 it is the
\* plain rectangle of four corners closed with Z.
C14_RoundedRectPath ==
    fnDone =>
        LET x == fnArgs.x
            y == fnArgs.y
            w == fnArgs.width
            h == fnArgs.height
            r == MinI(MinI(fnArgs.radius, DivFix(w, 2 * Scale)),
                      DivFix(h, 2 * Scale))
            p == fnRes
        IN IF r > 0
           THEN /\ [k \in 1..Len(p) |-> p[k].c]
                     = <<"M", "L", "Q", "L", "Q", "L", "Q", "L", "Q">>
                /\ p[1].a = <<x + r, y>>
                /\ EndOf(p[2])[2] = y
                /\ QuarterRound(EndOf(p[2]), p[3], <<x + w, y>>, r)
                /\ EndOf(p[4])[1] = x + w
                /\ QuarterRound(EndOf(p[4]), p[5], <<x + w, y + h>>, r)
                /\ EndOf(p[6])[2] = y + h
                /\ QuarterRound(EndOf(p[6]), p[7], <<x, y + h>>, r)
                /\ EndOf(p[8])[1] = x
                /\ QuarterRound(EndOf(p[8]), p[9], <<x, y>>, r)
                /\ EndOf(p[9]) = EndOf(p[1])
           ELSE p = <<Cmd("M", <<x, y>>), Cmd("L", <<x + w, y>>),
                      Cmd("L", <<x + w, y + h>>), Cmd("L", <<x, y + h>>),
                      Cmd("Z", <<>>)>>

\* the 100 x 100 rectangle at the origin with proportional roundness
C14_Witness ==
    /\ fnDone
    /\ <<fnArgs.x, fnArgs.y, fnArgs.width, fnArgs.height>>
         = <<0, 0, 100 * Scale, 100 * Scale>>
    /\ fnArgs.radius = get_corner_radius(100 * Scale, ProportionalRoundness)
    /\ fnArgs.radius = 25 * Scale
    /\ fnRes[1] = Cmd("M", <<25 * Scale, 0>>)
    /\ Len(SelectSeq(fnRes, LAMBDA c : c.c = "Q")) = 4

-----------------------------------------------------------------------------
(* build_elbow_arrow_path (arrow_utils.rs).                                 *)

\* horizontal only when |dx| > |dy|
is_horizontal_strict(p, prev) == AbsI(p[1] - prev[1]) > AbsI(p[2] - prev[2])

\* is_horizontal
is_horizontal(p, prev) == AbsI(p[1] - prev[1]) >= AbsI(p[2] - prev[2])

\* dist2d
dist2d(a, b) ==
    SqrtFix(MulFix(a[1] - b[1], a[1] - b[1]) + MulFix(a[2] - b[2], a[2] - b[2]))

\* the corner limited by the whole length of the two segments
ElbowCornerSizeFull(prev, curr, next, max_corner) ==
    MinI(MinI(max_corner, dist2d(curr, next)), dist2d(prev, curr))

\* corner
ElbowCornerSize(prev, curr, next, max_corner) ==
    MinI(MinI(max_corner, MulFix(dist2d(curr, next), Fx(1, 2))),
         MulFix(dist2d(prev, curr), Fx(1, 2)))

\* the point `corner` away from curr on the side of the point other, along
\* the axis the movement between the two is mostly on; from is the earlier
\* of the two points and to the later
ElbowTangent(curr, other, from, to, corner) ==
    IF is_horizontal(to, from)
    THEN IF other[1] < curr[1] THEN <<curr[1] - corner, curr[2]>>
         ELSE <<curr[1] + corner, curr[2]>>
    ELSE IF other[2] < curr[2] THEN <<curr[1], curr[2] - corner>>
         ELSE <<curr[1], curr[2] + corner>>

\* l + (2.0 / 3.0) * (q1 - l)
ElbowControl(l, q1) ==
    <<l[1] + MulFix(Fx(2, 3), q1[1] - l[1]),
      l[2] + MulFix(Fx(2, 3), q1[2] - l[2])>>

\* the two commands of the corner at the 1-based index i: the chunk (l, q1,
\* q2) with its quadratic raised to a cubic
ElbowPiece(l, q1, q2) ==
    <<Cmd("L", l),
      Cmd("C", ElbowControl(l, q1) \o ElbowControl(q2, q1) \o q2)>>

ElbowCorner(points, i, max_corner) ==
    ElbowPiece(
        ElbowTangent(points[i], points[i - 1], points[i - 1], points[i],
            ElbowCornerSize(points[i - 1], points[i], points[i + 1],
                            max_corner)),
        points[i],
        ElbowTangent(points[i], points[i + 1], points[i], points[i + 1],
            ElbowCornerSize(points[i - 1], points[i], points[i + 1],
                            max_corner)))

\* the vertices that get a corner, all but the last interior one
ElbowVerticesShort(points) == 2..(Len(points) - 2)

\* for i in 1..(points.len() - 1), as 1-based indices
ElbowVertices(points) == 2..(Len(points) - 1)

RECURSIVE ElbowCorners(_, _, _)
ElbowCorners(points, i, max_corner) ==
    IF i \notin ElbowVertices(points) THEN <<>>
    ELSE ElbowCorner(points, i, max_corner)
         \o ElbowCorners(points, i + 1, max_corner)

\* build_elbow_arrow_path: <<>> for None, <<path>> for Some(path)
build_elbow_arrow_path(points, max_corner) ==
    IF Len(points) < 2 THEN <<>>
    ELSE IF Len(points) = 2
    THEN <<<<Cmd("M", points[1]), Cmd("L", points[2])>>>>
    ELSE <<<<Cmd("M", points[1])>>
           \o ElbowCorners(points, 2, max_corner)
           \o <<Cmd("L", points[Len(points)])>>>>

(* SpecElbow: one call of build_elbow_arrow_path.                           *)

MaxElbowPoints == 4

ElbowPoints ==
    {<<0, 0>>, <<40 * Scale, 0>>, <<40 * Scale, 30 * Scale>>,
     <<10 * Scale, 30 * Scale>>}

ElbowMaxCorners == {16 * Scale, 4 * Scale, 0}

InitElbow ==
    /\ fnArgs \in {[fn |-> "build_elbow_arrow_path", points |-> q,
                    max_corner |-> m] :
                      q \in SeqsUpTo(ElbowPoints, MaxElbowPoints),
                      m \in ElbowMaxCorners}
    /\ fnRes = <<>>
    /\ fnDone = FALSE
    /\ rng = [i \in Workers |-> ZeroU64]
    /\ RngIdle
    /\ RoughIdle

CallElbowPath ==
    /\ ~fnDone
    /\ fnRes' = build_elbow_arrow_path(fnArgs.points, fnArgs.max_corner)
    /\ fnDone' = TRUE
    /\ UNCHANGED <<fnArgs, rng, rngVars, roughVars>>

NextElbow == CallElbowPath

SpecElbow == InitElbow /\ [][NextElbow]_vars

\* p is `corner` away from the vertex v along one axis
AxisOffset(p, v, corner) ==
    \/ p[2] = v[2] /\ AbsI(p[1] - v[1]) = corner
    \/ p[1] = v[1] /\ AbsI(p[2] - v[2]) = corner

\* C15: no path for fewer than 2 points; the straight line M p0 L p1 for
\* exactly 2; for n >= 3 points a path that starts at the first point, ends
\* with a line to the last and has in between exactly n - 2 corner pieces, one
\* per interior vertex in input order, each a line to the tangent point
\* before the vertex and a cubic to the tangent point after it.
C15_ElbowStructure ==
    fnDone =>
        LET pts == fnArgs.points
            n == Len(pts)
        IN /\ n < 2 => fnRes = <<>>
           /\ n = 2 => fnRes = <<<<Cmd("M", pts[1]), Cmd("L", pts[2])>>>>
           /\ n >= 3 =>
                /\ Len(fnRes) = 1
                /\ Len(fnRes[1]) = 2 + 2 * (n - 2)
                /\ fnRes[1][1] = Cmd("M", pts[1])
                /\ fnRes[1][Len(fnRes[1])] = Cmd("L", pts[n])
                /\ \A j \in 1..(n - 2) :
                      LET corner == MinI(fnArgs.max_corner,
                                         MinI(dist2d(pts[j], pts[j + 1]),
                                              dist2d(pts[j + 1], pts[j + 2]))
                                           \div 2)
                          l == fnRes[1][2 * j]
                          c == fnRes[1][2 * j + 1]
                      IN /\ l.c = "L" /\ Len(l.a) = 2
                         /\ c.c = "C" /\ Len(c.a) = 6
                         /\ AxisOffset(l.a, pts[j + 1], corner)
                         /\ AxisOffset(EndOf(c), pts[j + 1], corner)

\* three corners' worth of input: two interior vertices, both rounded
C15_Witness ==
    /\ fnDone
    /\ fnArgs.points = <<<<0, 0>>, <<40 * Scale, 0>>,
                         <<40 * Scale, 30 * Scale>>, <<10 * Scale, 30 * Scale>>>>
    /\ fnArgs.max_corner = 16 * Scale
    /\ Len(fnRes[1]) = 6
    /\ fnRes[1][2] = Cmd("L", <<25 * Scale, 0>>)
    /\ EndOf(fnRes[1][3]) = <<40 * Scale, 15 * Scale>>
    /\ fnRes[1][4] = Cmd("L", <<40 * Scale, 15 * Scale>>)
    /\ EndOf(fnRes[1][5]) = <<25 * Scale, 30 * Scale>>

-----------------------------------------------------------------------------
(* SpecNew: one call of LcgRng::new.                                        *)

\* 0x7F4A7C15, the seed whose mixed form has its low 32 bits all zero
SeedLowMix == 127 * 16777216 + 74 * 65536 + 124 * 256 + 21

NewSeeds == (-60..60) \cup {MaxI32, MinI32, SeedLowMix, -SeedLowMix}

InitNew ==
    /\ fnArgs \in {[fn |-> "LcgRng::new", seed |-> s] : s \in NewSeeds}
    /\ fnRes = ZeroU64
    /\ fnDone = FALSE
    /\ rng = [i \in Workers |-> ZeroU64]
    /\ RngIdle
    /\ RoughIdle

CallNew ==
    /\ ~fnDone
    /\ fnRes' = LcgNew(fnArgs.seed)
    /\ fnDone' = TRUE
    /\ UNCHANGED <<fnArgs, rng, rngVars, roughVars>>

NextNew == CallNew

SpecNew == InitNew /\ [][NextNew]_vars

\* the mixed form of a seed
Mixed(seed) == XorU64(SeedAsU64(seed), SeedMix)

\* C16, as stated: LcgRng::new(0), and LcgRng::new(s) for a seed whose mixed
\* form is exactly 0, starts from 0xDEADBEEFCAFEBABE; the initial state is
\* non-zero for every seed.
C16_ZeroSeedRemapped ==
    fnDone =>
        /\ (fnArgs.seed = 0 \/ Mixed(fnArgs.seed) = ZeroU64)
              => fnRes = ZeroRemap
        /\ fnRes # ZeroU64

\* C16, amended: the initial state is non-zero for every seed; a seed whose
\* mixed form is exactly 0 would start from 0xDEADBEEFCAFEBABE, and every
\* other seed, 0 included, starts from its mixed form, which for seed 0 is
\* 0x9E3779B97F4A7C15.
C16_InitialStateNonZero ==
    fnDone =>
        /\ fnRes # ZeroU64
        /\ Mixed(fnArgs.seed) = ZeroU64 => fnRes = ZeroRemap
        /\ Mixed(fnArgs.seed) # ZeroU64 => fnRes = Mixed(fnArgs.seed)
        /\ fnArgs.seed = 0 => fnRes = SeedMix

C16_Witness ==
    /\ fnDone
    /\ fnArgs.seed = 0
    /\ fnRes = SeedMix
    /\ fnRes # ZeroRemap

\* C17: whatever the seed and the calls made before, next_f64 returns a value
\* v / 2^53 with 0 <= v < 2^53, so at least 0 and below 1, and range(min, max)
\* with min <= max returns a value from min to max; each call advances the
\* state once by state * 6364136223846793005 + 1 modulo 2^64.
C17_UnitInterval ==
    \A i \in Instances :
        /\ rng[i] = LcgIterate(LcgNew(rngSeed[i]), Len(rngOps[i]))
        /\ \A k \in 1..Len(rngOps[i]) :
              /\ rngOps[i][k].op = "next_f64" =>
                    /\ rngRet[i][k] >= 0
                    /\ rngRet[i][k] < Scale
                    /\ rngRet[i][k] =
                          F64Of(LcgIterate(LcgNew(rngSeed[i]), k))
              /\ rngOps[i][k].op = "range" =>
                    /\ rngRet[i][k] >= rngOps[i][k].min
                    /\ rngRet[i][k] <= rngOps[i][k].max

C17_Witness ==
    \E i \in Instances :
        /\ Len(rngOps[i]) = 2
        /\ rngOps[i][1].op = "next_f64"
        /\ rngOps[i][2].op = "range"
        /\ rngRet[i][1] > Scale \div 2
        /\ rngRet[i][2] > rngOps[i][2].min
        /\ rngRet[i][2] < rngOps[i][2].max

-----------------------------------------------------------------------------
(* parse_color (color_utils.rs, renderer_skia.rs).  A &str is the sequence  *)
(* of its characters; "U+00E9" is the one two-byte character of the model. *)

\* char::len_utf8
len_utf8(c) == IF c = "U+00E9" THEN 2 ELSE 1

\* str::len, in bytes
RECURSIVE StrLen(_)
StrLen(s) == IF s = <<>> THEN 0 ELSE len_utf8(Head(s)) + StrLen(Tail(s))

\* str::is_char_boundary
is_char_boundary(s, k) ==
    \E n \in 0..Len(s) : StrLen(SubSeq(s, 1, n)) = k

\* the characters of the bytes a..b-1 of s, both on a character boundary
RECURSIVE StrBytes(_, _, _)
StrBytes(s, a, b) ==
    IF s = <<>> \/ b <= 0 THEN <<>>
    ELSE IF a > 0 THEN StrBytes(Tail(s), a - len_utf8(Head(s)),
                                b - len_utf8(Head(s)))
    ELSE <<Head(s)>> \o StrBytes(Tail(s), 0, b - len_utf8(Head(s)))

\* &s[a..b]: panics unless both ends are on a character boundary
StrSlice(s, a, b) ==
    IF is_char_boundary(s, a) /\ is_char_boundary(s, b)
    THEN [panic |-> FALSE, v |-> StrBytes(s, a, b)]
    ELSE [panic |-> TRUE, v |-> <<>>]

\* char::to_digit(16) on the characters of the model, -1 for None
to_digit(c) ==
    CASE c = "0" -> 0
      [] c = "1" -> 1
      [] c = "9" -> 9
      [] c = "a" -> 10
      [] c = "A" -> 10
      [] c = "f" -> 15
      [] c = "F" -> 15
      [] OTHER -> -1

RECURSIVE RadixDigits(_, _)
RadixDigits(s, acc0) ==
    IF s = <<>> THEN acc0
    ELSE IF to_digit(Head(s)) < 0 \/ acc0 * 16 + to_digit(Head(s)) > 255
    THEN -1
    ELSE RadixDigits(Tail(s), acc0 * 16 + to_digit(Head(s)))

\* u8::from_str_radix(s, 16), -1 for Err: an optional '+' and then at least
\* one digit
from_str_radix(s) ==
    IF s = <<>> THEN -1
    ELSE IF Head(s) = "+"
    THEN IF Tail(s) = <<>> THEN -1 ELSE RadixDigits(Tail(s), 0)
    ELSE RadixDigits(s, 0)

is_whitespace(c) == c = " "

RECURSIVE trim_start(_)
trim_start(s) ==
    IF s # <<>> /\ is_whitespace(Head(s)) THEN trim_start(Tail(s)) ELSE s

RECURSIVE trim_end(_)
trim_end(s) ==
    IF s # <<>> /\ is_whitespace(s[Len(s)])
    THEN trim_end(SubSeq(s, 1, Len(s) - 1)) ELSE s

trim(s) == trim_end(trim_start(s))

\* strip_prefix('#'), or the string itself
StripHash(s) == IF s # <<>> /\ Head(s) = "#" THEN Tail(s) ELSE s

to_ascii_lowercase(c) ==
    CASE c = "A" -> "a"
      [] c = "E" -> "e"
      [] c = "F" -> "f"
      [] c = "N" -> "n"
      [] c = "P" -> "p"
      [] c = "R" -> "r"
      [] c = "S" -> "s"
      [] c = "T" -> "t"
      [] OTHER -> c

Transparent == <<"t", "r", "a", "n", "s", "p", "a", "r", "e", "n", "t">>

eq_ignore_ascii_case(s, t) ==
    /\ Len(s) = Len(t)
    /\ \A k \in 1..Len(s) : to_ascii_lowercase(s[k]) = to_ascii_lowercase(t[k])

Rgba(r, g, b, a) == [panic |-> FALSE, rgba |-> <<r, g, b, a>>]

ColorPanic == [panic |-> TRUE, rgba |-> <<>>]

\* the 6 and 8 arms: every slice is taken before any is parsed
HexArm(hex, n) ==
    LET part(k) == StrSlice(hex, 2 * k - 2, 2 * k)
        val(k) == from_str_radix(part(k).v)
    IN IF \E k \in 1..n : part(k).panic THEN ColorPanic
       ELSE IF \E k \in 1..n : val(k) < 0 THEN Rgba(0, 0, 0, 255)
       ELSE Rgba(val(1), val(2), val(3), IF n = 4 THEN val(4) ELSE 255)

\* color_utils::parse_color
parse_color(color_str) ==
    IF eq_ignore_ascii_case(color_str, Transparent) \/ color_str = <<>>
    THEN Rgba(0, 0, 0, 0)
    ELSE IF StrLen(StripHash(trim(color_str))) = 6
    THEN HexArm(StripHash(trim(color_str)), 3)
    ELSE IF StrLen(StripHash(trim(color_str))) = 8
    THEN HexArm(StripHash(trim(color_str)), 4)
    ELSE Rgba(0, 0, 0, 255)

\* u8::from_str_radix(..).unwrap_or(0)
RadixOrZero(s) == IF from_str_radix(s) < 0 THEN 0 ELSE from_str_radix(s)

\* renderer_skia::parse_color
skia_parse_color(color_str) ==
    IF color_str # <<>> /\ Head(color_str) = "#" /\ StrLen(color_str) = 7
    THEN IF \E k \in 1..3 : StrSlice(color_str, 2 * k - 1, 2 * k + 1).panic
         THEN ColorPanic
         ELSE Rgba(RadixOrZero(StrSlice(color_str, 1, 3).v),
                   RadixOrZero(StrSlice(color_str, 3, 5).v),
                   RadixOrZero(StrSlice(color_str, 5, 7).v), 255)
    ELSE IF color_str = Transparent \/ color_str = <<>>
    THEN Rgba(0, 0, 0, 0)
    ELSE Rgba(0, 0, 0, 255)

(* SpecColor: one call of either parse_color.                               *)

ColorPieces ==
    {<<"f", "F">>, <<"1", "0">>, <<"g", "0">>, <<"+", "f">>, <<"U+00E9">>,
     <<"a">>}

MaxPieces == 4

RECURSIVE Joined(_)
Joined(q) == IF q = <<>> THEN <<>> ELSE Head(q) \o Joined(Tail(q))

ColorPrefixes == {<<>>, <<"#">>, <<" ">>}

ColorWords ==
    {Transparent,
     <<"T", "R", "A", "N", "S", "P", "A", "R", "E", "N", "T">>,
     <<"T", "r", "a", "n", "s", "p", "a", "r", "e", "n", "t">>,
     <<" ">>,
     <<"#", "f", "f", "0", "0", "1", "9", " ">>}

ColorStrings ==
    ColorWords \cup {p \o Joined(q) : p \in ColorPrefixes,
                                     q \in SeqsUpTo(ColorPieces, MaxPieces)}

InitColor ==
    /\ fnArgs \in {[fn |-> f, color_str |-> s] :
                      f \in {"color_utils::parse_color",
                             "renderer_skia::parse_color"},
                      s \in ColorStrings}
    /\ fnRes = Rgba(0, 0, 0, 0)
    /\ fnDone = FALSE
    /\ rng = [i \in Workers |-> ZeroU64]
    /\ RngIdle
    /\ RoughIdle

CallParseColor ==
    /\ ~fnDone
    /\ fnArgs.fn = "color_utils::parse_color"
    /\ fnRes' = parse_color(fnArgs.color_str)
    /\ fnDone' = TRUE
    /\ UNCHANGED <<fnArgs, rng, rngVars, roughVars>>

CallSkiaParseColor ==
    /\ ~fnDone
    /\ fnArgs.fn = "renderer_skia::parse_color"
    /\ fnRes' = skia_parse_color(fnArgs.color_str)
    /\ fnDone' = TRUE
    /\ UNCHANGED <<fnArgs, rng, rngVars, roughVars>>

NextColor == CallParseColor \/ CallSkiaParseColor

SpecColor == InitColor /\ [][NextColor]_vars

\* n pairs of hex digits, nothing else
IsHexDigits(s, n) ==
    /\ Len(s) = 2 * n
    /\ \A k \in 1..Len(s) : to_digit(s[k]) >= 0

HexPair(s, k) == 16 * to_digit(s[2 * k - 1]) + to_digit(s[2 * k])

\* the colour the documented defaults give the string s
DocumentedColor(s) ==
    IF s = <<>> \/ eq_ignore_ascii_case(s, Transparent) THEN <<0, 0, 0, 0>>
    ELSE IF IsHexDigits(StripHash(s), 3)
    THEN <<HexPair(StripHash(s), 1), HexPair(StripHash(s), 2),
           HexPair(StripHash(s), 3), 255>>
    ELSE IF IsHexDigits(StripHash(s), 4)
    THEN <<HexPair(StripHash(s), 1), HexPair(StripHash(s), 2),
           HexPair(StripHash(s), 3), HexPair(StripHash(s), 4)>>
    ELSE <<0, 0, 0, 255>>

\* C18: parse_color panics on no string and returns (0,0,0,0) for
\* "transparent" in any letter case and for the empty string, (r,g,b,255) for
\* 6 hex digits and (r,g,b,a) for 8, with or without a leading '#', and
\* (0,0,0,255) for every other string.
C18_ParseColorTotal ==
    fnDone =>
        /\ ~fnRes.panic
        /\ fnRes.rgba = DocumentedColor(fnArgs.color_str)

-----------------------------------------------------------------------------
(* Style tags: stroke style, fill style, arrowhead kind.                    *)

\* stroke_utils::get_stroke_dash_array: <<>> for None
get_stroke_dash_array(stroke_style, stroke_width) ==
    IF stroke_style = "dashed"
    THEN <<<<8 * Scale, 8 * Scale + MaxI(stroke_width, 0)>>>>
    ELSE IF stroke_style = "dotted"
    THEN <<<<Fx(15, 10), 6 * Scale + MaxI(stroke_width, 0)>>>>
    ELSE <<>>

\* renderer::get_stroke_dasharray
get_stroke_dasharray(stroke_style) ==
    IF stroke_style = "dashed" THEN "8,4"
    ELSE IF stroke_style = "dotted" THEN "2,2"
    ELSE "none"

\* render_element, rectangle arm: what fills a rectangle of the fill style
\* tag el_fill_style.  pattern is the function that gives the pattern path
\* ("none": no pattern path), interior the fill attribute of the shape
RectFill(el_fill_style, has_fill) ==
    LET fill_style == IF el_fill_style = "" THEN "solid" ELSE el_fill_style
    IN IF fill_style # "solid" /\ has_fill
       THEN [pattern |-> IF fill_style = "hachure"
                         THEN "generate_hachure_pattern" ELSE "none",
             interior |-> "none"]
       ELSE [pattern |-> "none",
             interior |-> IF has_fill THEN "background_color" ELSE "none"]

\* renderer_skia: the FillStyle of a fill style tag
skia_fill_style(el_fill_style) ==
    IF el_fill_style = "hachure" THEN "Hachure"
    ELSE IF el_fill_style = "cross-hatch" THEN "CrossHatch"
    ELSE IF el_fill_style = "solid" THEN "Solid"
    ELSE "Hachure"

(* SpecTags: one call of one of the functions that read a style tag.        *)

StrokeStyles == {"solid", "dashed", "dotted", "wavy", ""}

FillStyles == {"", "solid", "hachure", "cross-hatch", "zigzag", "dots"}

KnownStrokeStyles == {"solid", "dashed", "dotted"}

KnownFillStyles == {"solid", "hachure", "cross-hatch", "zigzag"}

TagInputs ==
    {[fn |-> f, stroke_style |-> s, stroke_width |-> w] :
        f \in {"get_stroke_dash_array", "get_stroke_dasharray"},
        s \in StrokeStyles, w \in ArrowStrokeWidths \cup {-Scale}}
    \cup {[fn |-> f, fill_style |-> s, has_fill |-> b] :
            f \in {"render_element", "renderer_skia"},
            s \in FillStyles, b \in BOOLEAN}
    \cup ArrowInputs

InitTags ==
    /\ fnArgs \in TagInputs
    /\ fnRes = <<>>
    /\ fnDone = FALSE
    /\ rng = [i \in Workers |-> ZeroU64]
    /\ RngIdle
    /\ RoughIdle

TagReturn(res) ==
    /\ ~fnDone
    /\ fnRes' = res
    /\ fnDone' = TRUE
    /\ UNCHANGED <<fnArgs, rng, rngVars, roughVars>>

CallStrokeDashArray ==
    /\ fnArgs.fn = "get_stroke_dash_array"
    /\ TagReturn(get_stroke_dash_array(fnArgs.stroke_style,
                                       fnArgs.stroke_width))

CallStrokeDasharray ==
    /\ fnArgs.fn = "get_stroke_dasharray"
    /\ TagReturn(get_stroke_dasharray(fnArgs.stroke_style))

CallRectFill ==
    /\ fnArgs.fn = "render_element"
    /\ TagReturn(RectFill(fnArgs.fill_style, fnArgs.has_fill))

CallSkiaFillStyle ==
    /\ fnArgs.fn = "renderer_skia"
    /\ TagReturn(skia_fill_style(fnArgs.fill_style))

CallTagArrowhead ==
    /\ fnArgs.fn = "calc_arrowhead_points"
    /\ CallArrowhead

NextTags ==
    \/ CallStrokeDashArray
    \/ CallStrokeDasharray
    \/ CallRectFill
    \/ CallSkiaFillStyle
    \/ CallTagArrowhead

SpecTags == InitTags /\ [][NextTags]_vars

\* C19: an unknown tag behaves as a default variant and never draws nothing:
\* an unknown stroke style gives no dash pattern, as solid does; an unknown
\* fill style fills as one of the known fill styles does; an unknown
\* arrowhead kind on a shaft of non-zero length gives the points of a known
\* kind of the default size 15 and angle 25 degrees.
C19_UnknownTagsDefault ==
    fnDone =>
        /\ (fnArgs.fn = "get_stroke_dash_array"
              /\ fnArgs.stroke_style \notin KnownStrokeStyles)
              => fnRes = <<>>
        /\ (fnArgs.fn = "get_stroke_dasharray"
              /\ fnArgs.stroke_style \notin KnownStrokeStyles)
              => fnRes = "none"
        /\ (fnArgs.fn = "render_element"
              /\ fnArgs.fill_style \notin KnownFillStyles \cup {""})
              => fnRes \in {RectFill("solid", fnArgs.has_fill),
                            RectFill("hachure", fnArgs.has_fill)}
        /\ (fnArgs.fn = "renderer_skia"
              /\ fnArgs.fill_style \notin KnownFillStyles \cup {""})
              => fnRes \in {"Solid", "Hachure"}
        /\ (fnArgs.fn = "calc_arrowhead_points"
              /\ fnArgs.arrowhead \notin ArrowKinds
              /\ <<fnArgs.x_tail, fnArgs.y_tail>>
                    # <<fnArgs.x_tip, fnArgs.y_tip>>)
              => /\ fnRes # <<>>
                 /\ \E k \in ArrowKinds :
                       /\ get_arrowhead_size(k) = 15 * Scale
                       /\ get_arrowhead_angle(k) = 25 * Scale
                       /\ fnRes = calc_arrowhead_points(
                                     [fnArgs EXCEPT !.arrowhead = k])

-----------------------------------------------------------------------------
(* render_element (renderer.rs).  The returned string is the sequence of   *)
(* the SVG elements it holds, each written as its tag with its fill,       *)
(* stroke and stroke-dasharray attributes ("none" for no dash attribute),  *)
(* and of the "\n" that separate them; <<>> is the empty string.           *)

\* generate_hachure_pattern as one call: the lines of index i and after
RECURSIVE HachureLines(_, _, _)
HachureLines(a, i, lines) ==
    IF i > HachureNumLines(a) THEN lines
    ELSE HachureLines(a, i + 1,
             HachurePush(lines,
                 HachureClip(a, i,
                     Cos(ToRadians(a.angle + HachureAngle)),
                     Sin(ToRadians(a.angle + HachureAngle)),
                     HachureDiagonal(a))))

generate_hachure_pattern(x, y, width, height, angle) ==
    Joined(HachureLines([x |-> x, y |-> y, width |-> width,
                         height |-> height, angle |-> angle],
                        -HachureNumLines([width |-> width,
                                          height |-> height]), <<>>))

\* one SVG element of a format string
Svg(tag, fill, stroke, dash) ==
    [tag |-> tag, fill |-> fill, stroke |-> stroke, dash |-> dash]

\* "\n"
Newline == [tag |-> "\n", fill |-> "", stroke |-> "", dash |-> "none"]

\* parts.join("\n")
RECURSIVE JoinLines(_)
JoinLines(parts) ==
    IF parts = <<>> THEN <<>>
    ELSE IF Len(parts) = 1 THEN Head(parts)
    ELSE Head(parts) \o <<Newline>> \o JoinLines(Tail(parts))

has_stroke(el) ==
    /\ el.stroke_color # ""
    /\ el.stroke_color # "transparent"
    /\ el.stroke_width > 0

has_fill(el) ==
    /\ el.background_color # ""
    /\ el.background_color # "transparent"

\* let stroke_color = if has_stroke { &el.stroke_color } else { "none" }
stroke_color(el) == IF has_stroke(el) THEN el.stroke_color ELSE "none"

\* let background_color = if has_fill { &el.background_color } else { "none" }
background_color(el) == IF has_fill(el) THEN el.background_color ELSE "none"

\* dasharray_attr: "none" for the empty attribute
dasharray_attr(el) == get_stroke_dasharray(el.stroke_style)

\* an element written with the stroke colour and the dash attribute
Stroked(el, tag, fill) == Svg(tag, fill, stroke_color(el), dasharray_attr(el))

\* one <path> per pair the rough generator fn returns
RoughPathParts(el, fn) ==
    [p \in 1..PassCount([fn |-> fn, roughness |-> el.roughness]) |->
        <<Stroked(el, "<path>", "none")>>]

\* the has_roughness branch of the rectangle, diamond and ellipse arms
RoughShape(el, fill_tag, fn) ==
    JoinLines((IF has_fill(el)
               THEN <<<<Svg(fill_tag, background_color(el), "none", "none")>>>>
               ELSE <<>>)
              \o (IF has_stroke(el) THEN RoughPathParts(el, fn) ELSE <<>>))

RectRadius(el) ==
    IF el.roundness # <<>>
    THEN get_corner_radius(MinI(el.width, el.height), el.roundness)
    ELSE 0

\* the rectangle arm
RenderRectangle(el) ==
    IF (IF el.fill_style = "" THEN "solid" ELSE el.fill_style) # "solid"
       /\ has_fill(el)
    THEN (IF el.fill_style = "hachure"
             /\ generate_hachure_pattern(el.x, el.y, el.width, el.height,
                                         el.angle) # <<>>
          THEN <<Svg("<path>", "none", el.background_color, "none")>>
          ELSE <<>>)
         \o <<Newline>>
         \o (IF ~has_stroke(el) THEN <<>>
             ELSE IF RectRadius(el) > 0
             THEN <<Stroked(el, "<path>", "none")>>
             ELSE <<Stroked(el, "<rect>", "none")>>)
    ELSE IF el.roughness > 0
    THEN RoughShape(el, "<path>", "generate_rough_rect_paths")
    ELSE IF RectRadius(el) > 0
    THEN <<Stroked(el, "<path>", background_color(el))>>
    ELSE <<Stroked(el, "<rect>", background_color(el))>>

\* the diamond arm
RenderDiamond(el) ==
    IF el.roughness > 0
    THEN RoughShape(el, "<polygon>", "generate_rough_polygon_paths")
    ELSE <<Stroked(el, "<polygon>", background_color(el))>>

\* the ellipse arm
RenderEllipse(el) ==
    IF el.roughness > 0
    THEN RoughShape(el, "<ellipse>", "generate_rough_ellipse_paths")
    ELSE <<Stroked(el, "<ellipse>", background_color(el))>>

\* convert_arrowhead_points: the number of points it returns
ConvertedPoints(arrowhead, vals) ==
    IF arrowhead \in {"dot", "circle", "circle_outline"}
    THEN IF Len(vals) >= 3 THEN 2 ELSE 0
    ELSE IF arrowhead = "bar" THEN IF Len(vals) >= 4 THEN 2 ELSE 0
    ELSE IF arrowhead \in {"arrow", "triangle", "triangle_outline"}
    THEN IF Len(vals) >= 6 THEN 3 ELSE 0
    ELSE IF arrowhead \in {"diamond", "diamond_outline"}
    THEN IF Len(vals) >= 8 THEN 4 ELSE 0
    ELSE 0

\* the dash attribute render_arrowhead writes: it is not passed
\* dasharray_attr and its format strings have no stroke-dasharray
ArrowheadDashOfShaft(el) == dasharray_attr(el)

ArrowheadDash(el) == "none"

\* let fill = if arrowhead_type == outline { background_color } else
\* { stroke_color }
ArrowheadFill(arrowhead, outline, stroke, background) ==
    IF arrowhead = outline THEN background ELSE stroke

\* render_arrowhead on a list of n points
ArrowheadTags(arrowhead, n, stroke, background, dash) ==
    IF n = 0 THEN <<>>
    ELSE IF arrowhead \in {"dot", "circle", "circle_outline"}
    THEN IF n >= 2
         THEN <<Svg("<circle>",
                    ArrowheadFill(arrowhead, "circle_outline", stroke,
                                  background),
                    stroke, dash)>>
         ELSE <<>>
    ELSE IF arrowhead = "bar"
    THEN IF n >= 2 THEN <<Svg("<path>", "none", stroke, dash)>> ELSE <<>>
    ELSE IF arrowhead = "arrow"
    THEN IF n >= 3
         THEN <<Svg("<path>", "none", stroke, dash), Newline,
                Svg("<path>", "none", stroke, dash)>>
         ELSE <<>>
    ELSE IF arrowhead \in {"triangle", "triangle_outline"}
    THEN IF n >= 3
         THEN <<Svg("<polygon>",
                    ArrowheadFill(arrowhead, "triangle_outline", stroke,
                                  background),
                    stroke, dash)>>
         ELSE <<>>
    ELSE IF arrowhead \in {"diamond", "diamond_outline"}
    THEN IF n >= 4
         THEN <<Svg("<polygon>",
                    ArrowheadFill(arrowhead, "diamond_outline", stroke,
                                  background),
                    stroke, dash)>>
         ELSE <<>>
    ELSE <<>>

\* render_arrowhead on the points convert_arrowhead_points gives for vals
render_arrowhead(el, arrowhead, vals) ==
    ArrowheadTags(arrowhead, ConvertedPoints(arrowhead, vals),
                  stroke_color(el), background_color(el), ArrowheadDash(el))

\* seed ^ mask for an i32 seed and a mask from 0 to 2^31 - 1
XorI32(seed, mask) ==
    IF seed >= 0 THEN XorBits(seed, mask, 31)
    ELSE -XorBits(-seed - 1, mask, 31) - 1

\* the rough second pass of an arrowhead: d holds the states of the three
\* draws, jitter is (0.6 + 0.2 * stroke_width) * roughness.max(0.0)
RoughArrowhead(el, kind, tail, tip, segment_length, d, jitter) ==
    render_arrowhead(el, kind,
        calc_arrowhead_points(
            [x_tail |-> tail[1] + RangeOf(d[1], -jitter, jitter),
             y_tail |-> tail[2] + RangeOf(d[2], -jitter, jitter),
             x_tip |-> tip[1] + RangeOf(d[1], -jitter, jitter),
             y_tip |-> tip[2] + RangeOf(d[2], -jitter, jitter),
             arrowhead |-> kind,
             stroke_width |-> MulFix(el.stroke_width,
                                     RangeOf(d[3], Fx(95, 100), Fx(105, 100))),
             segment_length |-> segment_length]))

\* what one arrowhead block appends to arrowheads_svg
ArrowheadBlock(el, kind, tail, tip, seed) ==
    render_arrowhead(el, kind,
        calc_arrowhead_points(
            [x_tail |-> tail[1], y_tail |-> tail[2],
             x_tip |-> tip[1], y_tip |-> tip[2], arrowhead |-> kind,
             stroke_width |-> el.stroke_width,
             segment_length |-> dist2d(tip, tail)]))
    \o (IF el.roughness > 0 /\ kind # "dot"
        THEN <<Newline>>
             \o RoughArrowhead(el, kind, tail, tip, dist2d(tip, tail),
                    LcgDraws(LcgNew(seed), 3),
                    MulFix(Fx(6, 10) + MulFix(Fx(2, 10), el.stroke_width),
                           MaxI(el.roughness, 0)))
        ELSE <<>>)

\* the kind of an arrowhead: the tag, else the arrow type, else "arrow"
ArrowheadType(tag, arrow_type) ==
    IF tag # <<>> THEN tag[1] ELSE unwrap_or(arrow_type, "arrow")

\* arrowheads_svg: the end arrowhead, then the start arrowhead
ArrowheadsSvg(el, points, abs_points) ==
    (IF (el.end_arrowhead # <<>> \/ el.end_arrow_type # <<>>)
        /\ Len(points) >= 2
     THEN ArrowheadBlock(el,
              ArrowheadType(el.end_arrowhead, el.end_arrow_type),
              abs_points[Len(points) - 1], abs_points[Len(points)], el.seed)
     ELSE <<>>)
    \o (IF (el.start_arrowhead # <<>> \/ el.start_arrow_type # <<>>)
           /\ Len(points) >= 2
        THEN ArrowheadBlock(el,
                 ArrowheadType(el.start_arrowhead, el.start_arrow_type),
                 abs_points[2], abs_points[1],
                 XorI32(el.seed, 171 * 65536 + 205 * 256 + 239))
        ELSE <<>>)

\* rough_passes.join("\n"): the shaft and its jittered passes
ShaftPasses(el) ==
    JoinLines(<<<<Stroked(el, "<path>", "none")>>>>
              \o (IF el.roughness > 0
                  THEN <<<<Stroked(el, "<path>", "none")>>>> ELSE <<>>)
              \o (IF el.roughness > Scale
                  THEN <<<<Stroked(el, "<path>", "none")>>>> ELSE <<>>))

\* all_shafts, or all_shafts and arrowheads_svg
LineSvg(all_shafts, arrowheads_svg) ==
    IF arrowheads_svg = <<>> THEN all_shafts
    ELSE all_shafts \o <<Newline>> \o arrowheads_svg

\* the line and arrow arm
RenderLine(el) ==
    IF el.points # <<>> /\ el.points[1] # <<>>
    THEN LineSvg(ShaftPasses(el),
             ArrowheadsSvg(el, el.points[1],
                 [k \in 1..Len(el.points[1]) |->
                     <<el.x + el.points[1][k][1],
                       el.y + el.points[1][k][2]>>]))
    ELSE <<>>

\* render_element on the element types of the model
render_element(el) ==
    IF el.is_deleted THEN <<>>
    ELSE IF el.element_type = "rectangle" THEN RenderRectangle(el)
    ELSE IF el.element_type = "diamond" THEN RenderDiamond(el)
    ELSE IF el.element_type = "ellipse" THEN RenderEllipse(el)
    ELSE RenderLine(el)

(* SpecRender: one call of render_element.                                  *)

\* <<width, height>>
RenderSizes == {<<0, 0>>, <<10 * Scale, 0>>, <<10 * Scale, 10 * Scale>>}

RenderRoughness == {0, Scale, 2 * Scale}

\* el.points: None, Some of no point, of one point, of a shaft, of a shaft of
\* length zero, of a shaft whose last segment has length zero
RenderPoints ==
    {<<>>, <<<<>>>>, <<<<<<0, 0>>>>>>,
     <<<<<<0, 0>>, <<30 * Scale, 40 * Scale>>>>>>,
     <<<<<<0, 0>>, <<0, 0>>>>>>,
     <<<<<<0, 0>>, <<30 * Scale, 0>>, <<30 * Scale, 0>>>>>>}

RenderStrokeColors == {"#1e1e1e", "transparent", ""}

RenderBackgroundColors == {"#ffc9c9", "transparent", ""}

RenderBase ==
    [x |-> 10 * Scale, y |-> 20 * Scale, angle |-> 0, seed |-> 7,
     start_arrow_type |-> <<>>, end_arrow_type |-> <<>>]

RenderShapes ==
    {[element_type |-> t, is_deleted |-> FALSE, width |-> wh[1],
      height |-> wh[2], stroke_color |-> sc, background_color |-> bc,
      fill_style |-> fs, stroke_style |-> ss, stroke_width |-> sw,
      roughness |-> r, roundness |-> rd, points |-> <<>>,
      start_arrowhead |-> <<>>, end_arrowhead |-> <<>>] :
        t \in {"rectangle", "diamond", "ellipse"}, wh \in RenderSizes,
        sc \in RenderStrokeColors, bc \in RenderBackgroundColors,
        fs \in {"solid", "hachure", "cross-hatch"},
        ss \in {"solid", "dotted"}, sw \in {0, 2 * Scale},
        r \in RenderRoughness, rd \in {<<>>, ProportionalRoundness}}

RenderLines ==
    {[element_type |-> t, is_deleted |-> FALSE, width |-> 0, height |-> 0,
      stroke_color |-> sc, background_color |-> bc,
      fill_style |-> "solid", stroke_style |-> ss, stroke_width |-> sw,
      roughness |-> r, roundness |-> <<>>,
      points |-> p, start_arrowhead |-> sa, end_arrowhead |-> ea] :
        t \in {"line", "arrow"}, sc \in RenderStrokeColors,
        bc \in {"#ffc9c9", "transparent"}, ss \in {"solid", "dotted"}, sw \in {0, 2 * Scale},
        r \in RenderRoughness, p \in RenderPoints,
        sa \in {<<>>, <<"arrow">>},
        ea \in {<<>>, <<"arrow">>, <<"triangle_outline">>, <<"bar">>,
                <<"circle">>, <<"diamond">>}}

RenderDeleted ==
    {[e EXCEPT !.is_deleted = TRUE] :
        e \in {s \in RenderShapes : s.roughness = 0 /\ s.stroke_width > 0
                                      /\ s.fill_style = "solid"}}

InitRender ==
    /\ fnArgs \in {[fn |-> "render_element", el |-> e @@ RenderBase] :
                      e \in RenderShapes \cup RenderLines \cup RenderDeleted}
    /\ fnRes = <<>>
    /\ fnDone = FALSE
    /\ rng = [i \in Workers |-> ZeroU64]
    /\ RngIdle
    /\ RoughIdle

CallRenderElement ==
    /\ ~fnDone
    /\ fnRes' = render_element(fnArgs.el)
    /\ fnDone' = TRUE
    /\ UNCHANGED <<fnArgs, rng, rngVars, roughVars>>

NextRender == CallRenderElement

SpecRender == InitRender /\ [][NextRender]_vars

\* the number of SVG elements in the string s
Primitives(s) == Cardinality({k \in 1..Len(s) : s[k] # Newline})

\* every segment an arrowhead of the element sits on has length zero
ZeroShafts(el) ==
    LET p == el.points[1]
    IN /\ Len(p) >= 2
       /\ el.end_arrowhead # <<>> => p[Len(p)] = p[Len(p) - 1]
       /\ el.start_arrowhead # <<>> => p[1] = p[2]

\* C20: render_element returns the empty string for a line or arrow whose
\* point list is missing or empty and for a rectangle, diamond or ellipse
\* whose bounding box has zero area, and draws nothing for an arrowhead on a
\* shaft of length zero: the string then holds the shaft passes only.
C20_DegenerateEmpty ==
    fnDone =>
        LET el == fnArgs.el
        IN /\ (el.element_type \in {"line", "arrow"}
                 /\ (el.points = <<>> \/ el.points = <<<<>>>>))
                 => fnRes = <<>>
           /\ (el.element_type \in {"line", "arrow"}
                 /\ el.points # <<>> /\ el.points # <<<<>>>>
                 /\ ZeroShafts(el))
                 => Primitives(fnRes) = Primitives(ShaftPasses(el))
           /\ (el.element_type \in {"rectangle", "diamond", "ellipse"}
                 /\ (el.width = 0 \/ el.height = 0))
                 => fnRes = <<>>

-----------------------------------------------------------------------------
(* calculate_viewbox (renderer.rs, utils.rs, renderer_skia.rs).  An f64 is *)
(* a finite fixed-point number, an infinity or NaN.                        *)

Fin(v) == [k |-> "fin", v |-> v]

\* f64::INFINITY
PosInf == [k |-> "+inf", v |-> 0]

\* f64::NEG_INFINITY
NegInf == [k |-> "-inf", v |-> 0]

NaN == [k |-> "nan", v |-> 0]

\* a.min(b): the other operand when one is NaN
F64Min(a, b) ==
    IF a.k = "nan" THEN b
    ELSE IF b.k = "nan" THEN a
    ELSE IF a.k = "-inf" \/ b.k = "+inf" THEN a
    ELSE IF b.k = "-inf" \/ a.k = "+inf" THEN b
    ELSE Fin(MinI(a.v, b.v))

\* a.max(b)
F64Max(a, b) ==
    IF a.k = "nan" THEN b
    ELSE IF b.k = "nan" THEN a
    ELSE IF a.k = "+inf" \/ b.k = "-inf" THEN a
    ELSE IF b.k = "+inf" \/ a.k = "-inf" THEN b
    ELSE Fin(MaxI(a.v, b.v))

\* -a
F64Neg(a) ==
    IF a.k = "+inf" THEN NegInf
    ELSE IF a.k = "-inf" THEN PosInf
    ELSE IF a.k = "nan" THEN NaN
    ELSE Fin(-a.v)

\* a + b
F64Add(a, b) ==
    IF a.k = "nan" \/ b.k = "nan" THEN NaN
    ELSE IF a.k = "fin" /\ b.k = "fin" THEN Fin(a.v + b.v)
    ELSE IF a.k = "fin" THEN b
    ELSE IF b.k = "fin" \/ a.k = b.k THEN a
    ELSE NaN

\* a - b
F64Sub(a, b) == F64Add(a, F64Neg(b))

\* const PADDING: f64 = 40.0
PADDING == 40 * Scale

\* the ViewBox returned for an empty slice
DefaultViewBox ==
    [min_x |-> Fin(0), min_y |-> Fin(0), width |-> Fin(800 * Scale),
     height |-> Fin(600 * Scale)]

\* the locals before the loop
ViewboxLocals ==
    [i |-> 1, min_x |-> PosInf, min_y |-> PosInf, max_x |-> NegInf,
     max_y |-> NegInf]

\* the loop body on the element el
ViewboxVisit(l, el) ==
    IF ~el.is_deleted
    THEN [i |-> l.i + 1,
          min_x |-> F64Min(l.min_x, Fin(el.x)),
          min_y |-> F64Min(l.min_y, Fin(el.y)),
          max_x |-> F64Max(l.max_x, Fin(el.x + el.width)),
          max_y |-> F64Max(l.max_y, Fin(el.y + el.height))]
    ELSE [l EXCEPT !.i = l.i + 1]

\* the ViewBox built from the locals
ViewboxOf(l) ==
    [min_x |-> F64Sub(l.min_x, Fin(PADDING)),
     min_y |-> F64Sub(l.min_y, Fin(PADDING)),
     width |-> F64Add(F64Sub(l.max_x, l.min_x), Fin(2 * PADDING)),
     height |-> F64Add(F64Sub(l.max_y, l.min_y), Fin(2 * PADDING))]

(* SpecViewbox: one call of calculate_viewbox, one element per step.        *)

MaxElements == 3

ViewboxBoxes ==
    {<<100 * Scale, 100 * Scale, 200 * Scale, 150 * Scale>>,
     <<500 * Scale, 500 * Scale, 100 * Scale, 100 * Scale>>,
     <<-50 * Scale, 20 * Scale, 0, 0>>}

ViewboxElements ==
    {[x |-> b[1], y |-> b[2], width |-> b[3], height |-> b[4],
      is_deleted |-> del] : b \in ViewboxBoxes, del \in BOOLEAN}

InitViewbox ==
    /\ fnArgs \in {[fn |-> "calculate_viewbox", elements |-> q] :
                      q \in SeqsUpTo(ViewboxElements, MaxElements)}
    /\ fnRes = ViewboxLocals
    /\ fnDone = FALSE
    /\ rng = [i \in Workers |-> ZeroU64]
    /\ RngIdle
    /\ RoughIdle

\* if elements.is_empty() { return ViewBox { 0, 0, 800, 600 } }
ViewboxEmpty ==
    /\ ~fnDone
    /\ fnArgs.elements = <<>>
    /\ fnRes' = DefaultViewBox
    /\ fnDone' = TRUE
    /\ UNCHANGED <<fnArgs, rng, rngVars, roughVars>>

\* for el in elements
ViewboxStep ==
    /\ ~fnDone
    /\ fnArgs.elements # <<>>
    /\ fnRes.i <= Len(fnArgs.elements)
    /\ fnRes' = ViewboxVisit(fnRes, fnArgs.elements[fnRes.i])
    /\ UNCHANGED <<fnArgs, fnDone, rng, rngVars, roughVars>>

ViewboxReturn ==
    /\ ~fnDone
    /\ fnArgs.elements # <<>>
    /\ fnRes.i > Len(fnArgs.elements)
    /\ fnRes' = ViewboxOf(fnRes)
    /\ fnDone' = TRUE
    /\ UNCHANGED <<fnArgs, rng, rngVars, roughVars>>

NextViewbox == ViewboxEmpty \/ ViewboxStep \/ ViewboxReturn

SpecViewbox == InitViewbox /\ [][NextViewbox]_vars

\* the elements of q that are not deleted
Shown(q) == SelectSeq(q, LAMBDA el : ~el.is_deleted)

RECURSIVE SeqMin(_)
SeqMin(q) ==
    IF Len(q) = 1 THEN q[1] ELSE MinI(q[1], SeqMin(Tail(q)))

RECURSIVE SeqMax(_)
SeqMax(q) ==
    IF Len(q) = 1 THEN q[1] ELSE MaxI(q[1], SeqMax(Tail(q)))

\* the bounding box of the elements of q grown by 40 on every side, the
\* default for no element
PaddedBounds(q) ==
    IF q = <<>> THEN DefaultViewBox
    ELSE [min_x |-> Fin(SeqMin([k \in 1..Len(q) |-> q[k].x]) - 40 * Scale),
          min_y |-> Fin(SeqMin([k \in 1..Len(q) |-> q[k].y]) - 40 * Scale),
          width |-> Fin(SeqMax([k \in 1..Len(q) |-> q[k].x + q[k].width])
                        - SeqMin([k \in 1..Len(q) |-> q[k].x])
                        + 80 * Scale),
          height |-> Fin(SeqMax([k \in 1..Len(q) |-> q[k].y + q[k].height])
                         - SeqMin([k \in 1..Len(q) |-> q[k].y])
                         + 80 * Scale)]

\* C21: calculate_viewbox returns the bounding box of the non-deleted
\* elements grown by 40 on every side, whatever deleted elements the list
\* also holds, and the default (0, 0, 800, 600) when no element is shown.
C21_ViewboxIgnoresDeleted ==
    fnDone => fnRes = PaddedBounds(Shown(fnArgs.elements))

(***************************************************************************)
(* C22: arrowheads are solid.  In the SVG of a line or arrow element only  *)
(* shaft paths carry a stroke-dasharray attribute: the shaft passes are    *)
(* the first elements of the output (one, two or three by roughness), and  *)
(* no element after them, an arrowhead primitive of either end and of any  *)
(* kind, has one.  With roughness 0 a dotted element with an arrowhead at  *)
(* both ends carries exactly one stroke-dasharray attribute.               *)
(***************************************************************************)
Dashed(s) == {k \in 1..Len(s) : s[k].tag # "\n" /\ s[k].dash # "none"}

\* the number of shaft passes of the lines 1116-1172: the smooth pass, the
\* pass of roughness > 0 and the pass of roughness > 1
ShaftCount(el) ==
    1 + (IF el.roughness > 0 THEN 1 ELSE 0)
      + (IF el.roughness > Scale THEN 1 ELSE 0)

C22_ArrowheadsSolid ==
    (fnDone /\ fnArgs.el.element_type \in {"line", "arrow"}) =>
        /\ \A k \in Dashed(fnRes) : k <= 2 * ShaftCount(fnArgs.el) - 1
        /\ (/\ fnArgs.el.roughness = 0
            /\ fnArgs.el.stroke_style = "dotted"
            /\ fnRes # <<>>) => Cardinality(Dashed(fnRes)) = 1

C22_Witness ==
    /\ fnDone
    /\ fnArgs.el.element_type = "arrow"
    /\ fnArgs.el.stroke_style = "dotted"
    /\ fnArgs.el.roughness = 0
    /\ fnArgs.el.stroke_color = "#1e1e1e"
    /\ fnArgs.el.stroke_width > 0
    /\ fnArgs.el.start_arrowhead = <<"arrow">>
    /\ fnArgs.el.end_arrowhead = <<"arrow">>
    /\ Primitives(fnRes) = 5
    /\ Cardinality(Dashed(fnRes)) = 1
    /\ fnRes[1].dash = "2,2"

(***************************************************************************)
(* C23: stroke and fill visibility.  The stroke is visible when the stroke *)
(* colour is neither empty nor "transparent" and the stroke width is > 0,  *)
(* the fill when the background colour is neither empty nor "transparent". *)
(* An element that is drawn has an SVG element stroked in its stroke       *)
(* colour, unchanged, exactly when the stroke is visible, and otherwise    *)
(* every stroke attribute of its outline is "none"; a rectangle, diamond   *)
(* or ellipse has an SVG element painted in its background colour,         *)
(* unchanged, exactly when the fill is visible, and otherwise every fill   *)
(* attribute is "none" (an arrowhead is filled in its own stroke).         *)
(***************************************************************************)
StrokeVisible(el) ==
    el.stroke_color \notin {"", "transparent"} /\ el.stroke_width > 0

FillVisible(el) == el.background_color \notin {"", "transparent"}

Elements(s) == {k \in 1..Len(s) : s[k].tag # "\n"}

\* the pattern path of a hachure fill: the fill drawn as strokes
IsPattern(el, e) ==
    FillVisible(el) /\ e.fill = "none" /\ e.stroke = el.background_color

IsShape(el) == el.element_type \in {"rectangle", "diamond", "ellipse"}

IsDrawn(el) ==
    /\ ~el.is_deleted
    /\ IsShape(el) \/ (el.points # <<>> /\ el.points[1] # <<>>)

StrokeRule(el, s) ==
    /\ StrokeVisible(el) =>
           \E k \in Elements(s) : s[k].stroke = el.stroke_color
    /\ ~StrokeVisible(el) =>
           \A k \in Elements(s) :
               s[k].stroke = "none" \/ IsPattern(el, s[k])

FillRule(el, s) ==
    /\ (FillVisible(el) /\ IsShape(el)) =>
           \E k \in Elements(s) :
               s[k].fill = el.background_color \/ IsPattern(el, s[k])
    /\ ~FillVisible(el) =>
           \A k \in Elements(s) :
               \/ s[k].fill = "none"
               \/ ~IsShape(el) /\ s[k].fill = s[k].stroke

C23_StrokeFillVisibility ==
    (fnDone /\ IsDrawn(fnArgs.el)) =>
        StrokeRule(fnArgs.el, fnRes) /\ FillRule(fnArgs.el, fnRes)

-----------------------------------------------------------------------------
(* The loops of clip_line_to_rect and generate_ellipse_points               *)
(* (renderer.rs), step by step.  A radius is rx * 2^e with rx in fixed      *)
(* point: e = 0 for the radii of a drawing, e > 0 for the finite f64 far    *)
(* beyond the fixed-point range, where the 53-bit significand of the angle  *)
(* decides what angle += increment does.                                    *)

\* f64::MANTISSA_DIGITS
MANTISSA_DIGITS == 53

\* usize::BITS
USIZE_BITS == 64

\* rad_offset and the angles of the loop lie in 1 <= |v| < 8: floor(log2 |v|)
Exponent(v) ==
    CASE Scale <= AbsI(v) /\ AbsI(v) < 2 * Scale -> 0
      [] 2 * Scale <= AbsI(v) /\ AbsI(v) < 4 * Scale -> 1
      [] 4 * Scale <= AbsI(v) /\ AbsI(v) < 8 * Scale -> 2

\* psq = m * 2^e for the radii rx * 2^(2e), ry * 2^(2e)
SamplePsq(rx, ry, e) ==
    [m |-> SqrtFix(MulFix(TwoPi,
               SqrtFix(Half(MulFix(rx, rx) + MulFix(ry, ry))))),
     e |-> e \div 2]

\* step_count as usize, written m * 2^e: for e = 0 the count of
\* EllipseStepCount; for e >= 53 the f64 is an integer above 9, so max and
\* ceil leave it alone, and the cast saturates at 2^64 - 1
SampleStepCount(rx, ry, psq) ==
    IF psq.e = 0 THEN [m |-> EllipseStepCount(rx, ry) * Scale, e |-> 0]
    ELSE IF psq.e >= USIZE_BITS THEN [m |-> Scale, e |-> USIZE_BITS]
    ELSE [m |-> MulFix(DivFix(9 * Scale, SqrtFix(200 * Scale)), psq.m),
          e |-> psq.e]

\* increment = 2 pi / step_count as f64
SampleIncrement(step_count) ==
    [m |-> DivFix(TwoPi, step_count.m), e |-> -step_count.e]

\* whether increment is below half the distance between angle and the next
\* f64: the sum angle + increment then rounds back to angle
Absorbed(angle, increment) ==
    /\ Exponent(angle) - MANTISSA_DIGITS - increment.e >= 0
    /\ increment.m
         < Scale * 2 ^ MinI(Exponent(angle) - MANTISSA_DIGITS - increment.e,
                            20)

\* angle += increment
AngleAdd(angle, increment) ==
    CASE increment.e = 0 -> angle + increment.m
      [] increment.e < 0 /\ Absorbed(angle, increment) -> angle

\* end_angle
SampleEndAngle(rad_offset) == TwoPi + rad_offset - Fx(1, 100)

\* the increment of the call a
SampleIncrementOf(a) ==
    SampleIncrement(SampleStepCount(a.rx, a.ry, SamplePsq(a.rx, a.ry, a.e)))

(* SpecGeometry: one call of clip_line_to_rect or of                        *)
(* generate_ellipse_points, one loop iteration per step.                    *)

\* points.len() is counted up to this bound
MaxSamples == 24

\* rng.range(-0.5, 0.5)
SampleRanges == {-Fx(1, 2), 0, Fx(499, 1000)}

SampleInputs ==
    {[fn |-> "generate_ellipse_points", rx |-> rx, ry |-> ry, e |-> 0] :
        rx \in {0, 10 * Scale, 20 * Scale, 100 * Scale},
        ry \in {0, 10 * Scale, 50 * Scale}}
    \cup {[fn |-> "generate_ellipse_points", rx |-> Scale, ry |-> ry,
           e |-> e] : ry \in {0, Scale}, e \in {114, 128}}

\* the increment of every call of the model
SampleIncrements == [a \in SampleInputs |-> SampleIncrementOf(a)]

InitGeometry ==
    /\ fnArgs \in ClipInputs \cup SampleInputs
    /\ fnRes = IF fnArgs.fn = "clip_line_to_rect"
               THEN [x1 |-> fnArgs.x1, y1 |-> fnArgs.y1, x2 |-> fnArgs.x2,
                     y2 |-> fnArgs.y2, ret |-> "loop", steps |-> 0]
               ELSE [at |-> "start", n |-> 0, over |-> 0, angle |-> 0,
                     rad_offset |-> 0, increment |-> [m |-> 0, e |-> 0]]
    /\ fnDone = FALSE
    /\ rng = [i \in Workers |-> ZeroU64]
    /\ RngIdle
    /\ RoughIdle

\* the locals after one iteration, steps counting the clipping steps
ClipCounted(l, steps) ==
    [l EXCEPT !.steps = IF l.ret = "loop" THEN steps + 1 ELSE steps]

GeometryClipLoop ==
    /\ ~fnDone
    /\ fnArgs.fn = "clip_line_to_rect"
    /\ fnRes' = ClipCounted(ClipIteration(fnRes, fnArgs.rx, fnArgs.ry,
                                          fnArgs.rw, fnArgs.rh),
                            fnRes.steps)
    /\ fnDone' = (fnRes'.ret # "loop")
    /\ UNCHANGED <<fnArgs, rng, rngVars, roughVars>>

\* step_count and increment are computed, rad_offset is drawn and the
\* starting point is pushed
SampleStart ==
    /\ ~fnDone
    /\ fnArgs.fn = "generate_ellipse_points"
    /\ fnRes.at = "start"
    /\ \E r \in SampleRanges :
           fnRes' = [at |-> "loop", n |-> 1, over |-> 0, angle |-> r - HalfPi,
                     rad_offset |-> r - HalfPi,
                     increment |-> SampleIncrements[fnArgs]]
    /\ UNCHANGED <<fnArgs, fnDone, rng, rngVars, roughVars>>

\* while angle < end_angle: one point is pushed and angle += increment; n is
\* the length of the list up to MaxSamples, over the parity of the points
\* pushed beyond that
SampleLoop ==
    /\ ~fnDone
    /\ fnArgs.fn = "generate_ellipse_points"
    /\ fnRes.at = "loop"
    /\ fnRes.angle < SampleEndAngle(fnRes.rad_offset)
    /\ fnRes' = [fnRes EXCEPT
                   !.n = IF @ < MaxSamples THEN @ + 1 ELSE @,
                   !.over = IF fnRes.n < MaxSamples THEN @ ELSE 1 - @,
                   !.angle = AngleAdd(@, fnRes.increment)]
    /\ UNCHANGED <<fnArgs, fnDone, rng, rngVars, roughVars>>

\* the loop has ended: the three closing points are pushed
SampleClose ==
    /\ ~fnDone
    /\ fnArgs.fn = "generate_ellipse_points"
    /\ fnRes.at = "loop"
    /\ ~(fnRes.angle < SampleEndAngle(fnRes.rad_offset))
    /\ fnRes' = [fnRes EXCEPT !.at = "return", !.n = @ + 3]
    /\ fnDone' = TRUE
    /\ UNCHANGED <<fnArgs, rng, rngVars, roughVars>>

NextGeometry ==
    \/ GeometryClipLoop
    \/ SampleStart
    \/ SampleLoop
    \/ SampleClose

\* a call that can take a step takes it
SpecGeometry ==
    InitGeometry /\ [][NextGeometry]_vars /\ WF_vars(NextGeometry)

(***************************************************************************)
(* C24: every geometry operation terminates on every input.  Every call    *)
(* of clip_line_to_rect and of generate_ellipse_points returns; the        *)
(* clipping loop takes at most 4 clipping steps; the sampling loop has     *)
(* pushed at most step_count points, so the list returned has at most      *)
(* step_count plus the 4 starting and closing points.                      *)
(***************************************************************************)
SampleBounded ==
    (fnDone /\ fnArgs.fn = "generate_ellipse_points" /\ fnArgs.e = 0) =>
        fnRes.n <= EllipseStepCount(fnArgs.rx, fnArgs.ry) + 4

ClipBounded == fnArgs.fn = "clip_line_to_rect" => fnRes.steps <= 4

C24_GeometryTerminates ==
    /\ <>fnDone
    /\ []ClipBounded
    /\ []SampleBounded

-----------------------------------------------------------------------------
(* exca_arrowhead_points (renderer_skia.rs): the arrowhead geometry of the  *)
(* raster renderer.  None is <<>>, Some(vals) is <<vals>>.                  *)

exca_get_arrowhead_size(arrowhead) ==
    IF arrowhead = "arrow" THEN 25 * Scale
    ELSE IF arrowhead \in {"diamond", "diamond_outline"} THEN 12 * Scale
    ELSE IF arrowhead \in {"crowfoot_many", "crowfoot_one",
                           "crowfoot_one_or_many"} THEN 20 * Scale
    ELSE 15 * Scale

\* degrees
exca_get_arrowhead_angle(arrowhead) ==
    IF arrowhead = "bar" THEN 90 * Scale
    ELSE IF arrowhead = "arrow" THEN 20 * Scale
    ELSE 25 * Scale

\* the points of the element moved by (x, y), then the cubics of
\* catmull_rom_cubics with tension 0.5
catmull_rom_cubics_abs(points, x, y) ==
    catmull_rom_cubics([k \in 1..Len(points) |->
                           <<x + points[k][1], y + points[k][2]>>],
                       Fx(1, 2))

\* one coordinate of cubic_point for the weights u3, 3 u2 t, 3 u t2, t3
CubicCoordinate(a, b, c, d, u, t) ==
    MulFix(MulFix(MulFix(u, u), u), a)
    + MulFix(MulFix(MulFix(3 * Scale, MulFix(u, u)), t), b)
    + MulFix(MulFix(MulFix(3 * Scale, u), MulFix(t, t)), c)
    + MulFix(MulFix(MulFix(t, t), t), d)

cubic_point(p0, p1, p2, p3, t) ==
    <<CubicCoordinate(p0[1], p1[1], p2[1], p3[1], Scale - t, t),
      CubicCoordinate(p0[2], p1[2], p2[2], p3[2], Scale - t, t)>>

\* seg_len: the length of the last, or of the first, segment of the points
ExcaSegLen(points, position) ==
    IF Len(points) < 2 THEN 0
    ELSE IF position = "end"
    THEN dist2d(points[Len(points)], points[Len(points) - 1])
    ELSE dist2d(points[1], points[2])

\* the match on the kind, for the tip (x2, y2), the base point (xs, ys) and
\* the angle in radians
ExcaVals(x2, y2, xs, ys, nx, ny, min_size, stroke_width, arrowhead, angle) ==
    IF arrowhead \in {"dot", "circle", "circle_outline"}
    THEN <<x2, y2,
           SqrtFix(MulFix(ys - y2, ys - y2) + MulFix(xs - x2, xs - x2))
           + stroke_width - 2 * Scale>>
    ELSE IF arrowhead \in {"crowfoot_many", "crowfoot_one_or_many"}
    THEN <<xs, ys>> \o rotate_point(x2, y2, xs, ys, -angle)
                    \o rotate_point(x2, y2, xs, ys, angle)
    ELSE IF arrowhead \in {"diamond", "diamond_outline"}
    THEN <<x2, y2>> \o rotate_point(xs, ys, x2, y2, -angle)
                    \o <<x2 - MulFix(MulFix(nx, min_size), 2 * Scale),
                         y2 - MulFix(MulFix(ny, min_size), 2 * Scale)>>
                    \o rotate_point(xs, ys, x2, y2, angle)
    ELSE <<x2, y2>> \o rotate_point(xs, ys, x2, y2, -angle)
                    \o rotate_point(xs, ys, x2, y2, angle)

\* from nx, ny and min_size on
ExcaBase(tip, nx, ny, min_size, stroke_width, arrowhead) ==
    ExcaVals(tip[1], tip[2],
             tip[1] - MulFix(nx, min_size), tip[2] - MulFix(ny, min_size),
             nx, ny, min_size, stroke_width, arrowhead,
             ToRadians(exca_get_arrowhead_angle(arrowhead)))

\* from the tip (x2, y2), the point near the tip (x1, y1) and dist on
ExcaDirected(tip, near, dist, seg_len, stroke_width, arrowhead) ==
    IF dist < 1 THEN <<>>
    ELSE <<ExcaBase(tip,
                    DivFix(tip[1] - near[1], dist),
                    DivFix(tip[2] - near[2], dist),
                    MinI(exca_get_arrowhead_size(arrowhead),
                         MulFix(seg_len, ArrowLengthMult(arrowhead))),
                    stroke_width, arrowhead)>>

\* from the cubic (p0, p1, p2, p3) of the end on
ExcaOnCubic(c, points, stroke_width, arrowhead, position) ==
    ExcaDirected(IF position = "start" THEN c[1] ELSE c[4],
                 cubic_point(c[1], c[2], c[3], c[4],
                             IF position = "start" THEN Fx(3, 10)
                             ELSE Fx(7, 10)),
                 dist2d(IF position = "start" THEN c[1] ELSE c[4],
                        cubic_point(c[1], c[2], c[3], c[4],
                                    IF position = "start" THEN Fx(3, 10)
                                    ELSE Fx(7, 10))),
                 ExcaSegLen(points, position), stroke_width, arrowhead)

exca_arrowhead_points(points, x, y, stroke_width, arrowhead, position) ==
    IF points = <<>> \/ catmull_rom_cubics_abs(points, x, y) = <<>> THEN <<>>
    ELSE ExcaOnCubic(
             IF position = "start"
             THEN catmull_rom_cubics_abs(points, x, y)[1]
             ELSE catmull_rom_cubics_abs(points, x, y)[Len(points) - 1],
             points, stroke_width, arrowhead, position)

\* the call of calc_arrowhead_points of render_element for the same end:
\* the tip is the last (first) point, the tail the point next to it
SvgArrowheadPoints(points, x, y, stroke_width, arrowhead, position) ==
    IF Len(points) < 2 THEN <<>>
    ELSE calc_arrowhead_points(
             [x_tail |-> x + points[IF position = "start" THEN 2
                                    ELSE Len(points) - 1][1],
              y_tail |-> y + points[IF position = "start" THEN 2
                                    ELSE Len(points) - 1][2],
              x_tip |-> x + points[IF position = "start" THEN 1
                                   ELSE Len(points)][1],
              y_tip |-> y + points[IF position = "start" THEN 1
                                   ELSE Len(points)][2],
              arrowhead |-> arrowhead, stroke_width |-> stroke_width,
              segment_length |-> ExcaSegLen(points, position)])

(* SpecSites: the two call sites on the same end of the same element, in    *)
(* either order.                                                            *)

SiteShafts ==
    {<<<<s[1], s[2]>>, <<s[3], s[4]>>>> : s \in ArrowShafts}
    \cup {<<>>, <<<<0, 0>>>>,
          <<<<0, 0>>, <<40 * Scale, 0>>, <<40 * Scale, 30 * Scale>>>>}

SiteInputs ==
    {[fn |-> "arrowhead_points", points |-> p, x |-> 10 * Scale,
      y |-> 20 * Scale, stroke_width |-> sw, arrowhead |-> k,
      position |-> pos] :
        p \in SiteShafts, sw \in {Scale, 2 * Scale},
        k \in ArrowKinds \cup {"star"}, pos \in {"start", "end"}}

InitSites ==
    /\ fnArgs \in SiteInputs
    /\ fnRes = [svg |-> "pending", skia |-> "pending"]
    /\ fnDone = FALSE
    /\ rng = [i \in Workers |-> ZeroU64]
    /\ RngIdle
    /\ RoughIdle

CallSvgSite ==
    /\ fnRes.svg = "pending"
    /\ fnRes' = [fnRes EXCEPT !.svg =
                    SvgArrowheadPoints(fnArgs.points, fnArgs.x, fnArgs.y,
                                       fnArgs.stroke_width, fnArgs.arrowhead,
                                       fnArgs.position)]
    /\ fnDone' = (fnRes.skia # "pending")
    /\ UNCHANGED <<fnArgs, rng, rngVars, roughVars>>

CallSkiaSite ==
    /\ fnRes.skia = "pending"
    /\ fnRes' = [fnRes EXCEPT !.skia =
                    exca_arrowhead_points(fnArgs.points, fnArgs.x, fnArgs.y,
                                          fnArgs.stroke_width,
                                          fnArgs.arrowhead, fnArgs.position)]
    /\ fnDone' = (fnRes.svg # "pending")
    /\ UNCHANGED <<fnArgs, rng, rngVars, roughVars>>

NextSites == CallSvgSite \/ CallSkiaSite

SpecSites == InitSites /\ [][NextSites]_vars

(***************************************************************************)
(* C25: both call sites compute the same arrowhead geometry.  For the same *)
(* end of the same element, calc_arrowhead_points and                      *)
(* exca_arrowhead_points return lists of the same length whose values      *)
(* agree up to the rounding of the arithmetic; None counts as the empty    *)
(* list.                                                                   *)
(***************************************************************************)
\* the rounding allowed between two routes to the same value
SiteTolerance == Fx(1, 10)

SameVals(a, b) ==
    /\ Len(a) = Len(b)
    /\ \A k \in 1..Len(a) : AbsI(a[k] - b[k]) <= SiteTolerance

C25_SameArrowheadGeometry ==
    fnDone => SameVals(fnRes.svg,
                       IF fnRes.skia = <<>> THEN <<>> ELSE fnRes.skia[1])

-----------------------------------------------------------------------------
(* SpecGain: the roughness gain of generate_rough_line_segment for two     *)
(* segment lengths a <= b.                                                 *)

GainLengths ==
    {0, 100 * Scale, 200 * Scale - 1, 200 * Scale, 200 * Scale + 1,
     250 * Scale, 300 * Scale, 350 * Scale, 400 * Scale, 450 * Scale,
     500 * Scale - 1, 500 * Scale, 500 * Scale + 1, 600 * Scale,
     1000 * Scale}

InitGain ==
    /\ fnArgs \in {g \in [fn : {"roughness_gain"}, a : GainLengths,
                           b : GainLengths] : g.a <= g.b}
    /\ fnRes = <<>>
    /\ fnDone = FALSE
    /\ rng = [i \in Workers |-> ZeroU64]
    /\ RngIdle
    /\ RoughIdle

CallGain ==
    /\ ~fnDone
    /\ fnRes' = <<RoughnessGain(fnArgs.a), RoughnessGain(fnArgs.b)>>
    /\ fnDone' = TRUE
    /\ UNCHANGED <<fnArgs, rng, rngVars, roughVars>>

NextGain == CallGain

SpecGain == InitGain /\ [][NextGain]_vars

\* the rounding allowed on a gain
GainTolerance == Fx(2, 1000)

\* 1.0 below 200 and 0.4 beyond 500
GainEnds(length, gain) ==
    /\ length < 200 * Scale => gain = Scale
    /\ length > 500 * Scale => gain = Fx(4, 10)

Tapering(length) == 200 * Scale <= length /\ length <= 500 * Scale

(***************************************************************************)
(* C26, as stated: the gain is 1.0 below length 200, lies on the straight  *)
(* line from 1.0 at length 200 to 0.4 at length 500 in between, and is 0.4 *)
(* beyond 500; it is non-increasing in the length and within [0.4, 1.0].   *)
(***************************************************************************)
C26_GainTaper ==
    fnDone =>
        /\ GainEnds(fnArgs.a, fnRes[1])
        /\ GainEnds(fnArgs.b, fnRes[2])
        /\ Tapering(fnArgs.a) =>
               AbsI(fnRes[1] - (Scale - DivFix(MulFix(fnArgs.a - 200 * Scale,
                                                      Fx(6, 10)),
                                               300 * Scale)))
                   <= GainTolerance
        /\ fnRes[2] <= fnRes[1] + GainTolerance
        /\ Fx(4, 10) - GainTolerance <= fnRes[2]
        /\ fnRes[1] <= Scale

(***************************************************************************)
(* C26, amended: the gain is 1.0 below length 200 and 0.4 beyond 500; from *)
(* 200 to 500 it lies on the line of slope -0.0016668 that gives 0.9 at    *)
(* length 200 and 0.4 at length 500, so it drops from 1.0 to 0.9 at 200;   *)
(* up to the rounding of the constants it is non-increasing in the length  *)
(* and within [0.4, 1.0].                                                  *)
(***************************************************************************)
C26_GainRoughJs ==
    fnDone =>
        /\ GainEnds(fnArgs.a, fnRes[1])
        /\ GainEnds(fnArgs.b, fnRes[2])
        /\ fnArgs.a = 200 * Scale =>
               AbsI(fnRes[1] - Fx(9, 10)) <= GainTolerance
        /\ fnArgs.b = 500 * Scale =>
               AbsI(fnRes[2] - Fx(4, 10)) <= GainTolerance
        /\ (Tapering(fnArgs.a) /\ Tapering(fnArgs.b)) =>
               AbsI((fnRes[1] - fnRes[2])
                    - DivFix(MulFix(fnArgs.b - fnArgs.a, Fx(16668, 10000)),
                             1000 * Scale))
                   <= GainTolerance
        /\ fnRes[2] <= fnRes[1] + GainTolerance
        /\ Fx(4, 10) - GainTolerance <= fnRes[2]
        /\ fnRes[1] <= Scale

C26_Witness ==
    /\ fnDone
    /\ fnArgs.a = 200 * Scale
    /\ fnArgs.b = 500 * Scale
    /\ fnRes[1] < Fx(95, 100)
    /\ fnRes[1] > Fx(85, 100)
    /\ AbsI(fnRes[2] - Fx(4, 10)) <= GainTolerance

-----------------------------------------------------------------------------
(* SpecPinning: generate_rough_line_segment called on its own, and          *)
(* generate_rough_rect_paths run from its entry to its return.              *)

\* (x1, y1, x2, y2) of the segments: lengths 100, 300 and 5
PinSegments ==
    {<<0, 0, 100 * Scale, 0>>, <<10 * Scale, 20 * Scale, 10 * Scale, 320 * Scale>>,
     <<0, 0, 3 * Scale, 4 * Scale>>}

PinSeeds == {0, 7, -1}

SegmentInputs ==
    [fn : {"generate_rough_line_segment"}, p : PinSegments, seed : PinSeeds,
     roughness : {Scale, 3 * Scale}, preserve_vertices : BOOLEAN,
     is_overlay : BOOLEAN]

PinCalls ==
    {RoughCall("generate_rough_rect_paths", g, r, s) :
        g \in {RectGeometry, <<10 * Scale, 20 * Scale, 300 * Scale, 600 * Scale, 0>>,
               <<0, 0, 5 * Scale, 5 * Scale, 0>>},
        r \in {Fx(1, 2), Scale, Fx(3, 2), 2 * Scale},
        s \in PinSeeds}

InitPinning ==
    /\ fnArgs \in SegmentInputs \cup PinCalls
    /\ fnRes = <<>>
    /\ fnDone = FALSE
    /\ rng = [i \in Workers |-> ZeroU64]
    /\ RngIdle
    /\ RoughIdle

\* generate_rough_line_segment with a fresh generator, bowing 1 and the
\* max_offset generate_rough_rect_paths passes
CallSegment ==
    /\ ~fnDone
    /\ fnArgs.fn = "generate_rough_line_segment"
    /\ fnRes' = generate_rough_line_segment(
                    fnArgs.p[1], fnArgs.p[2], fnArgs.p[3], fnArgs.p[4],
                    LcgNew(fnArgs.seed), fnArgs.roughness, Scale,
                    MulFix(2 * Scale, SqrtFix(fnArgs.roughness)),
                    fnArgs.preserve_vertices, fnArgs.is_overlay).path
    /\ fnDone' = TRUE
    /\ UNCHANGED <<fnArgs, rng, rngVars, roughVars>>

\* entry of generate_rough_rect_paths
PinStart ==
    /\ fnArgs.fn = "generate_rough_rect_paths"
    /\ Start(1, fnArgs)

NextPinning ==
    \/ CallSegment
    \/ PinStart
    \/ BeginPass(1)
    \/ Step(1)
    \/ EndPass(1)
    \/ Finish(1)

SpecPinning == InitPinning /\ [][NextPinning]_vars

\* the start and the end point of the k-th segment of a path of M/C pairs
SegStart(path, k) == path[2 * k - 1].a

SegEnd(path, k) == <<path[2 * k].a[5], path[2 * k].a[6]>>

Fmt2Point(p) == <<Fmt2(p[1]), Fmt2(p[2])>>

Succ(k, n) == (k % n) + 1

\* every segment of the path starts at its corner and ends at the next one
Pinned(path, corners) ==
    \A k \in 1..Len(corners) :
        /\ SegStart(path, k) = Fmt2Point(corners[k])
        /\ SegEnd(path, k) = Fmt2Point(corners[Succ(k, Len(corners))])

\* every segment ends where the next starts, the last where the first starts
Closed(path, n) ==
    \A k \in 1..n : SegEnd(path, k) = SegStart(path, Succ(k, n))

PinTolerance == Fx(1, 100)

SegLength(x1, y1, x2, y2) ==
    SqrtFix(MulFix(x1 - x2, x1 - x2) + MulFix(y1 - y2, y1 - y2))

\* the offset range of the primary pass for a segment of this length: the
\* smaller of max_offset and length / 10, times roughness and gain
PrimaryReach(length, roughness) ==
    MulFix(MulFix(MinI(MulFix(2 * Scale, SqrtFix(roughness)),
                       DivFix(length, 10 * Scale)), roughness),
           RoughnessGain(length))

\* the range the end points and control points are moved in
Reach(length, roughness, is_overlay) ==
    IF is_overlay THEN Half(PrimaryReach(length, roughness))
    ELSE PrimaryReach(length, roughness)

\* the largest bowing displacement along one axis, d the extent of the
\* segment along the other axis
BowReach(d, length, roughness) ==
    MulFix(MulFix(DivFix(MulFix(MulFix(2 * Scale, SqrtFix(roughness)), AbsI(d)),
                         200 * Scale), roughness),
           RoughnessGain(length))

Near(v, c, reach) == AbsI(v - c) <= reach + PinTolerance

InChord(v, a, b, reach) ==
    /\ v >= MinI(a, b) - reach - PinTolerance
    /\ v <= MaxI(a, b) + reach + PinTolerance

\* the end points of the M/C pair are within reach of (x1, y1) and (x2, y2),
\* the control points within reach of the bowed chord at 0.2..0.4 and
\* 0.4..0.8 of its length
SegmentWithin(m, c, x1, y1, x2, y2, reach, bx, by) ==
    /\ Near(m.a[1], x1, reach) /\ Near(m.a[2], y1, reach)
    /\ Near(c.a[5], x2, reach) /\ Near(c.a[6], y2, reach)
    /\ InChord(c.a[1], x1 + MulFix(x2 - x1, Fx(2, 10)),
               x1 + MulFix(x2 - x1, Fx(4, 10)), reach + bx)
    /\ InChord(c.a[2], y1 + MulFix(y2 - y1, Fx(2, 10)),
               y1 + MulFix(y2 - y1, Fx(4, 10)), reach + by)
    /\ InChord(c.a[3], x1 + MulFix(x2 - x1, Fx(4, 10)),
               x1 + MulFix(x2 - x1, Fx(8, 10)), reach + bx)
    /\ InChord(c.a[4], y1 + MulFix(y2 - y1, Fx(4, 10)),
               y1 + MulFix(y2 - y1, Fx(8, 10)), reach + by)

WithinReach(m, c, x1, y1, x2, y2, length, roughness, is_overlay) ==
    SegmentWithin(m, c, x1, y1, x2, y2, Reach(length, roughness, is_overlay),
                  BowReach(y2 - y1, length, roughness),
                  BowReach(x1 - x2, length, roughness))

PathWithin(path, corners, roughness, is_overlay) ==
    \A k \in 1..Len(corners) :
        \E a \in {corners[k]}, b \in {corners[Succ(k, Len(corners))]} :
            WithinReach(path[2 * k - 1], path[2 * k], a[1], a[2], b[1], b[2],
                        SegLength(a[1], a[2], b[1], b[2]), roughness,
                        is_overlay)

\* the number of values one pass over n segments draws
PassDraws(n, preserve_vertices) == n * (IF preserve_vertices THEN 7 ELSE 11)

SegmentPinned ==
    (fnDone /\ fnArgs.fn = "generate_rough_line_segment") =>
        /\ fnArgs.preserve_vertices =>
              /\ SegStart(fnRes, 1) = Fmt2Point(<<fnArgs.p[1], fnArgs.p[2]>>)
              /\ SegEnd(fnRes, 1) = Fmt2Point(<<fnArgs.p[3], fnArgs.p[4]>>)
        /\ WithinReach(fnRes[1], fnRes[2], fnArgs.p[1], fnArgs.p[2],
                       fnArgs.p[3], fnArgs.p[4],
                       SegLength(fnArgs.p[1], fnArgs.p[2], fnArgs.p[3],
                                 fnArgs.p[4]),
                       fnArgs.roughness, fnArgs.is_overlay)

RectPinned(call, paths, n) ==
    /\ Len(paths) = 2
    /\ IF call.roughness < Fx(3, 2)
       THEN /\ Pinned(paths[1].path, RectCornerPoints(call.g))
            /\ Closed(paths[1].path, Len(RectCornerPoints(call.g)))
       ELSE ~Pinned(paths[1].path, RectCornerPoints(call.g))
    /\ PathWithin(paths[1].path, RectCornerPoints(call.g), call.roughness,
                  FALSE)
    /\ ~Pinned(paths[2].path, RectCornerPoints(call.g))
    /\ PathWithin(paths[2].path, RectCornerPoints(call.g), call.roughness,
                  TRUE)
    /\ n = PassDraws(Len(RectCornerPoints(call.g)),
                     call.roughness < Fx(3, 2))
           + PassDraws(Len(RectCornerPoints(call.g)), FALSE)

\* C27: a segment generated with preserve_vertices starts at (x1, y1) and
\* ends at (x2, y2) for every seed and roughness; the primary pass of
\* generate_rough_rect_paths preserves vertices exactly when roughness < 1.5,
\* and then each of its segments ends where the next starts and the last
\* where the first starts; the overlay pass never preserves vertices and
\* moves its end points and control points within half the offset range of
\* the primary pass.
C27_VertexPinning ==
    /\ SegmentPinned
    /\ (pc[1] = "done") => RectPinned(cur[1], out[1], draws[1][2])

C27_Witness ==
    /\ pc[1] = "done"
    /\ cur[1] = RoughCall("generate_rough_rect_paths", RectGeometry, Scale, 7)
    /\ Len(out[1]) = 2
    /\ SegStart(out[1][1].path, 1) = <<0, 0>>
    /\ SegEnd(out[1][1].path, 4) = <<0, 0>>
    /\ SegStart(out[1][2].path, 1) # <<0, 0>>
    /\ SegEnd(out[1][2].path, 4) # SegStart(out[1][2].path, 1)

-----------------------------------------------------------------------------
(* The corner rule of build_elbow_arrow_path.                               *)

\* the segment from a to b counts as horizontal
Horizontal(a, b) == AbsI(b[1] - a[1]) >= AbsI(b[2] - a[2])

\* the point r away from v towards (r > 0) the point other, along the axis
\* of the segment between them
AlongAxis(v, other, r) ==
    IF Horizontal(v, other)
    THEN <<v[1] + r * Sgn(other[1] - v[1]), v[2]>>
    ELSE <<v[1], v[2] + r * Sgn(other[2] - v[2])>>

\* min(max_corner, half the incoming length, half the outgoing length)
CornerRadius(prev, v, next, max_corner) ==
    MinI(max_corner, MinI(dist2d(prev, v) \div 2, dist2d(v, next) \div 2))

\* c = t + 2/3 (v - t), up to the resolution of 2/3 and of the result
TwoThirds(c, t, v) ==
    /\ AbsI(3 * (c[1] - t[1]) - 2 * (v[1] - t[1]))
          <= 3 + (2 * AbsI(v[1] - t[1])) \div Scale
    /\ AbsI(3 * (c[2] - t[2]) - 2 * (v[2] - t[2]))
          <= 3 + (2 * AbsI(v[2] - t[2])) \div Scale

CornerRule(l, c, prev, v, next, r) ==
    /\ l.a = AlongAxis(v, prev, r)
    /\ EndOf(c) = AlongAxis(v, next, r)
    /\ TwoThirds(<<c.a[1], c.a[2]>>, l.a, v)
    /\ TwoThirds(<<c.a[3], c.a[4]>>, EndOf(c), v)

\* C28: at every interior vertex the corner radius is min(max_corner, half
\* the incoming length, half the outgoing length); the entry tangent point is
\* that far from the vertex back along the incoming segment, the exit tangent
\* point that far along the outgoing one, a segment being horizontal when
\* |dx| >= |dy| and vertical otherwise; the cubic between them has
\* c1 = entry + 2/3 (vertex - entry) and c2 = exit + 2/3 (vertex - exit).
C28_ElbowCornerRule ==
    (fnDone /\ Len(fnArgs.points) >= 3) =>
        \A j \in 1..(Len(fnArgs.points) - 2) :
            CornerRule(fnRes[1][2 * j], fnRes[1][2 * j + 1],
                       fnArgs.points[j], fnArgs.points[j + 1],
                       fnArgs.points[j + 2],
                       CornerRadius(fnArgs.points[j], fnArgs.points[j + 1],
                                    fnArgs.points[j + 2], fnArgs.max_corner))

\* a corner whose outgoing segment has |dx| = |dy|: it counts as horizontal
C28_Witness ==
    /\ fnDone
    /\ fnArgs.points = <<<<0, 0>>, <<40 * Scale, 0>>, <<10 * Scale, 30 * Scale>>>>
    /\ fnArgs.max_corner = 16 * Scale
    /\ fnRes[1][2] = Cmd("L", <<24 * Scale, 0>>)
    /\ EndOf(fnRes[1][3]) = <<24 * Scale, 0>>
    /\ fnRes[1][3].a[1] \in (34660..34675)
    /\ fnRes[1][3].a[2] = 0

-----------------------------------------------------------------------------
(* Order of the tangent points along the polyline.                          *)

\* every segment is axis-aligned and of non-zero length
Orthogonal(points) ==
    \A k \in 1..(Len(points) - 1) :
        (points[k][1] = points[k + 1][1]) # (points[k][2] = points[k + 1][2])

\* how far p is from a in the direction of b, a to b axis-aligned
PosAlong(a, b, p) ==
    Sgn(b[1] - a[1]) * (p[1] - a[1]) + Sgn(b[2] - a[2]) * (p[2] - a[2])

\* p is on the segment from a to b
OnSegment(a, b, p) ==
    /\ (a[1] = b[1]) => p[1] = a[1]
    /\ (a[2] = b[2]) => p[2] = a[2]
    /\ PosAlong(a, b, p) >= 0
    /\ PosAlong(a, b, p) <= PosAlong(a, b, b)

\* the tangent points before and after the interior vertex j + 1
EntryPoint(path, j) == path[2 * j].a

ExitPoint(path, j) == EndOf(path[2 * j + 1])

InOrder(points, path) ==
    /\ \A j \in 1..(Len(points) - 2) :
          /\ OnSegment(points[j], points[j + 1], EntryPoint(path, j))
          /\ OnSegment(points[j + 1], points[j + 2], ExitPoint(path, j))
    /\ \A j \in 1..(Len(points) - 3) :
          PosAlong(points[j + 1], points[j + 2], ExitPoint(path, j))
              <= PosAlong(points[j + 1], points[j + 2],
                          EntryPoint(path, j + 1))

\* C30: for a polyline whose segments are all axis-aligned and of non-zero
\* length and max_corner >= 0, every tangent point lies on its segment
\* between the two vertices, and on a segment joining two interior vertices
\* the exit tangent point of the first corner comes no later than the entry
\* tangent point of the next.
C30_CornersInOrder ==
    (/\ fnDone
     /\ Len(fnArgs.points) >= 3
     /\ Orthogonal(fnArgs.points)
     /\ fnArgs.max_corner >= 0) => InOrder(fnArgs.points, fnRes[1])

\* both corners limited by the segment between them: they meet at its middle
C30_Witness ==
    /\ fnDone
    /\ Len(fnArgs.points) = 4
    /\ Orthogonal(fnArgs.points)
    /\ fnArgs.max_corner = 16 * Scale
    /\ dist2d(fnArgs.points[2], fnArgs.points[3]) = 30 * Scale
    /\ ExitPoint(fnRes[1], 1) = EntryPoint(fnRes[1], 2)
    /\ ExitPoint(fnRes[1], 1) = <<40 * Scale, 15 * Scale>>

-----------------------------------------------------------------------------
(* Centre of rotation and symmetry of the flank points.                     *)

CrowfootKinds == {"crowfoot_many", "crowfoot_one", "crowfoot_one_or_many"}

\* the kinds that have two flank points
FlankKinds == ArrowKinds \ {"dot", "circle", "circle_outline"}

\* the two flank points in the result of the kind
FlankPoints(k, vals) ==
    IF k = "bar" THEN <<<<vals[1], vals[2]>>, <<vals[3], vals[4]>>>>
    ELSE IF k \in {"diamond", "diamond_outline"}
    THEN <<<<vals[3], vals[4]>>, <<vals[7], vals[8]>>>>
    ELSE <<<<vals[3], vals[4]>>, <<vals[5], vals[6]>>>>

FlankTolerance == Fx(1, 10)

\* the component of p - c along the shaft, and the one across it
AlongShaft(l, p, c) == MulFix(p[1] - c[1], l.nx) + MulFix(p[2] - c[2], l.ny)

AcrossShaft(l, p, c) == MulFix(p[2] - c[2], l.nx) - MulFix(p[1] - c[1], l.ny)

\* p is a point of the shaft line, min_size away from c, turned about c by
\* the angle of the kind, to one side or the other
RotatedAbout(l, p, c, angle) ==
    /\ AbsI(AbsI(AlongShaft(l, p, c)) - MulFix(l.min_size, Cos(angle)))
          <= FlankTolerance
    /\ AbsI(AbsI(AcrossShaft(l, p, c)) - MulFix(l.min_size, Sin(angle)))
          <= FlankTolerance

\* a and b are mirror images of each other across the line of the shaft
Mirrored(l, a, b, tip) ==
    /\ AbsI(AlongShaft(l, a, tip) - AlongShaft(l, b, tip)) <= FlankTolerance
    /\ AbsI(AcrossShaft(l, a, tip) + AcrossShaft(l, b, tip)) <= FlankTolerance

\* both flank points turned about c, one to each side
FlanksAbout(l, f, c, angle, tip) ==
    /\ RotatedAbout(l, f[1], c, angle)
    /\ RotatedAbout(l, f[2], c, angle)
    /\ Mirrored(l, f[1], f[2], tip)

\* C29: for every kind other than crowfoot the two flank points are the
\* rotations by +angle and -angle around the shaft base point, one cap
\* length back from the tip; for the crowfoot kinds they are the rotations
\* around the tip; the two flank points are mirror images of each other
\* across the shaft line.
C29_FlankRotation ==
    (fnDone /\ NonDegenerate /\ fnArgs.arrowhead \in FlankKinds) =>
        FlanksAbout(ArrowLocals(fnArgs),
                    FlankPoints(fnArgs.arrowhead, fnRes),
                    IF fnArgs.arrowhead \in CrowfootKinds
                    THEN <<fnArgs.x_tip, fnArgs.y_tip>>
                    ELSE <<ArrowLocals(fnArgs).xs, ArrowLocals(fnArgs).ys>>,
                    ToRadians(get_arrowhead_angle(fnArgs.arrowhead)),
                    <<fnArgs.x_tip, fnArgs.y_tip>>)

====
